---- MODULE Spec2Model ----
(***************************************************************************)
(* The steno translation engine of sordahe: chords are looked up in the    *)
(* dictionary (find_action), the resulting action is run against the input *)
(* state, the backlog and the pending output (run_action), and flush hands *)
(* the pending output to the caller, which applies it to its surface.      *)
(*                                                                         *)
(* Strings are sequences of bytes; a byte is written as a one-character    *)
(* string.  An Option is a sequence of length 0 (None) or 1 (Some).        *)
(***************************************************************************)
EXTENDS Integers, Sequences, FiniteSets, TLC

VARIABLES steno, surface, calls, log, seen, batch, app, io, ortho

vars == <<steno, surface, calls, log, seen, batch, app, io, ortho>>

----------------------------------------------------------------------------
(* Bounds of the model.                                                    *)

\* Requested capacity of the backlog (the program asks for 1000).
MaxBacklog == 2

\* Number of run_keys calls in one behaviour.
MaxCalls == 5

\* Number of run_keys calls in one behaviour of the long sessions.
MaxLongCalls == 7

\* Nesting depth of run_keys calls made by Backspace re-running strokes.
MaxNest == 3

\* How far the allocated capacity of a VecDeque may exceed the request.
MaxSlack == 1

\* Number of keys of the chords whose text is parsed back, beyond the chords
\* made of the doubled keys alone.
MaxKeys == 3

\* Number of run_keys calls in one behaviour of the sessions that run the
\* parts of entries in the states that a few chords lead to.
MaxPartCalls == 4

\* Requested capacity of the frontends' buffer of surface bytes (the program
\* asks for 100).
MaxBuffer == 3

\* Number of characters of the texts that a surface and an Output hold when
\* the Output is compared with the buffer.
MaxChars == 2

\* Letters of the words given to apply_orthography_rules
MaxWord == 3

----------------------------------------------------------------------------
(* Strings.                                                                *)

Last(s) == s[Len(s)]

Front(s) == SubSeq(s, 1, Len(s) - 1)

Lower == <<"a","b","c","d","e","f","g","h","i","j","k","l","m",
           "n","o","p","q","r","s","t","u","v","w","x","y","z">>

Upper == <<"A","B","C","D","E","F","G","H","I","J","K","L","M",
           "N","O","P","Q","R","S","T","U","V","W","X","Y","Z">>

IndexIn(c, alphabet) ==
   IF \E i \in 1..Len(alphabet) : alphabet[i] = c
   THEN CHOOSE i \in 1..Len(alphabet) : alphabet[i] = c
   ELSE 0

\* u8::make_ascii_uppercase / make_ascii_lowercase on one byte
ByteUpper(c) == IF IndexIn(c, Lower) > 0 THEN Upper[IndexIn(c, Lower)] ELSE c

ByteLower(c) == IF IndexIn(c, Upper) > 0 THEN Lower[IndexIn(c, Upper)] ELSE c

\* str::make_ascii_lowercase
make_ascii_lowercase(s) == [i \in 1..Len(s) |-> ByteLower(s[i])]

\* Bytes that continue a multi-byte character (none of the texts of the
\* dictionary below holds one; the texts given to the surface buffer do).
ContinuationBytes == {"\\x80", "\\x81"}

\* str::chars().count()
CharCount(s) == Cardinality({i \in 1..Len(s) : s[i] \notin ContinuationBytes})

WhiteSpace == {" "}

RECURSIVE TrimStart(_)
TrimStart(s) ==
   IF s # <<>> /\ s[1] \in WhiteSpace THEN TrimStart(Tail(s)) ELSE s

RECURSIVE TrimEnd(_)
TrimEnd(s) ==
   IF s # <<>> /\ Last(s) \in WhiteSpace THEN TrimEnd(Front(s)) ELSE s

\* str::trim
Trim(s) == TrimEnd(TrimStart(s))

\* str::strip_suffix / str::strip_prefix, as Options
StripSuffix(s, suffix) ==
   IF Len(suffix) <= Len(s)
      /\ SubSeq(s, Len(s) - Len(suffix) + 1, Len(s)) = suffix
   THEN <<SubSeq(s, 1, Len(s) - Len(suffix))>>
   ELSE <<>>

StripPrefix(s, prefix) ==
   IF Len(prefix) <= Len(s) /\ SubSeq(s, 1, Len(prefix)) = prefix
   THEN <<SubSeq(s, Len(prefix) + 1, Len(s))>>
   ELSE <<>>

----------------------------------------------------------------------------
(* CharsOrBytes.                                                           *)

CharsOrBytesDefault == [chars |-> 0, bytes |-> 0]

for_str(s) == [chars |-> CharCount(s), bytes |-> Len(s)]

CharsOrBytesAdd(a, b) ==
   [chars |-> a.chars + b.chars, bytes |-> a.bytes + b.bytes]

\* impl Sub for CharsOrBytes.  The counters are usize: a negative counter
\* here stands for a subtraction that overflows (a panic where overflow is
\* checked, a wrapped counter where it is not)
CharsOrBytesSub(a, b) ==
   [chars |-> a.chars - b.chars, bytes |-> a.bytes - b.bytes]

----------------------------------------------------------------------------
(* Orthography.                                                            *)

RULES ==
   <<
      <<<<"i", "c">>, <<"l", "y">>, <<"i", "c", "a", "l", "l", "y">>>>,
      <<<<"t", "e">>, <<"r", "y">>, <<"t", "o", "r", "y">>>>,
      <<<<"t">>, <<"c", "y">>, <<"c", "y">>>>,
      <<<<"t", "e">>, <<"c", "y">>, <<"c", "y">>>>,
      <<<<"s", "h">>, <<"s">>, <<"s", "h", "e", "s">>>>,
      <<<<"s">>, <<"s">>, <<"s", "e", "s">>>>,
      <<<<"e", "a", "c", "h">>, <<"s">>, <<"e", "a", "c", "h", "e", "s">>>>,
      <<<<"e", "e", "c", "h">>, <<"s">>, <<"e", "e", "c", "h", "e", "s">>>>,
      <<<<"y">>, <<"s">>, <<"i", "e", "s">>>>,
      <<<<"y">>, <<"e", "d">>, <<"i", "e", "d">>>>,
      <<<<"i", "e">>, <<"i", "n", "g">>, <<"y", "i", "n", "g">>>>,
      <<<<"y">>, <<"i", "s", "t">>, <<"i", "s", "t">>>>,
      <<<<"y">>, <<"f", "u", "l">>, <<"i", "f", "u", "l">>>>,
      <<<<"t", "e">>, <<"e", "n">>, <<"t", "t", "e", "n">>>>,
      <<<<"e">>, <<"e", "n">>, <<"e", "n">>>>,
      <<<<"e", "e">>, <<"e">>, <<"e", "e">>>>,
      <<<<"e">>, <<"i", "n", "g">>, <<"i", "n", "g">>>>,
      <<<<"a", "t">>, <<"e">>, <<"a", "t", "t", "e">>>>,
      <<<<"a", "g">>, <<"e">>, <<"a", "g", "g", "e">>>>,
      <<<<"a", "b">>, <<"e">>, <<"a", "b", "b", "e">>>>,
      <<<<"a", "t">>, <<"i">>, <<"a", "t", "t", "i">>>>,
      <<<<"a", "g">>, <<"i">>, <<"a", "g", "g", "i">>>>,
      <<<<"a", "b">>, <<"i">>, <<"a", "b", "b", "i">>>>,
      <<<<"a", "n">>, <<"i">>, <<"a", "n", "n", "i">>>>,
      <<<<"e", "t">>, <<"e">>, <<"e", "t", "t", "e">>>>,
      <<<<"e", "g">>, <<"e">>, <<"e", "g", "g", "e">>>>,
      <<<<"e", "b">>, <<"e">>, <<"e", "b", "b", "e">>>>,
      <<<<"e", "t">>, <<"i">>, <<"e", "t", "t", "i">>>>,
      <<<<"e", "g">>, <<"i">>, <<"e", "g", "g", "i">>>>,
      <<<<"e", "b">>, <<"i">>, <<"e", "b", "b", "i">>>>,
      <<<<"e", "n">>, <<"i">>, <<"e", "n", "n", "i">>>>,
      <<<<"i", "t">>, <<"e">>, <<"i", "t", "t", "e">>>>,
      <<<<"i", "g">>, <<"e">>, <<"i", "g", "g", "e">>>>,
      <<<<"i", "b">>, <<"e">>, <<"i", "b", "b", "e">>>>,
      <<<<"i", "t">>, <<"i">>, <<"i", "t", "t", "i">>>>,
      <<<<"i", "g">>, <<"i">>, <<"i", "g", "g", "i">>>>,
      <<<<"i", "b">>, <<"i">>, <<"i", "b", "b", "i">>>>,
      <<<<"i", "n">>, <<"i">>, <<"i", "n", "n", "i">>>>,
      <<<<"o", "t">>, <<"e">>, <<"o", "t", "t", "e">>>>,
      <<<<"o", "g">>, <<"e">>, <<"o", "g", "g", "e">>>>,
      <<<<"o", "b">>, <<"e">>, <<"o", "b", "b", "e">>>>,
      <<<<"o", "t">>, <<"i">>, <<"o", "t", "t", "i">>>>,
      <<<<"o", "g">>, <<"i">>, <<"o", "g", "g", "i">>>>,
      <<<<"o", "b">>, <<"i">>, <<"o", "b", "b", "i">>>>,
      <<<<"o", "n">>, <<"i">>, <<"o", "n", "n", "i">>>>,
      <<<<"u", "t">>, <<"e">>, <<"u", "t", "t", "e">>>>,
      <<<<"u", "g">>, <<"e">>, <<"u", "g", "g", "e">>>>,
      <<<<"u", "b">>, <<"e">>, <<"u", "b", "b", "e">>>>,
      <<<<"u", "t">>, <<"i">>, <<"u", "t", "t", "i">>>>,
      <<<<"u", "g">>, <<"i">>, <<"u", "g", "g", "i">>>>,
      <<<<"u", "b">>, <<"i">>, <<"u", "b", "b", "i">>>>,
      <<<<"u", "n">>, <<"i">>, <<"u", "n", "n", "i">>>>,
      <<<<"e">>, <<"e", "d">>, <<"e", "d">>>>
   >>

\* The loop over RULES taken from the last rule to the first
RECURSIVE ApplyRulesFrom_LastFirst(_, _, _)
ApplyRulesFrom_LastFirst(i, first, second) ==
   IF i > Len(RULES) THEN <<>>
   ELSE LET f == StripSuffix(first, RULES[Len(RULES) + 1 - i][1])
            s == StripPrefix(second, RULES[Len(RULES) + 1 - i][2])
        IN IF f # <<>> /\ s # <<>>
           THEN <<f[1] \o RULES[Len(RULES) + 1 - i][3] \o s[1]>>
           ELSE ApplyRulesFrom_LastFirst(i + 1, first, second)

RECURSIVE ApplyRulesFrom(_, _, _)
ApplyRulesFrom(i, first, second) ==
   IF i > Len(RULES) THEN <<>>
   ELSE LET f == StripSuffix(first, RULES[i][1])
            s == StripPrefix(second, RULES[i][2])
        IN IF f # <<>> /\ s # <<>>
           THEN <<f[1] \o RULES[i][3] \o s[1]>>
           ELSE ApplyRulesFrom(i + 1, first, second)

apply_orthography_rules(first, second) == ApplyRulesFrom(1, first, second)

\* No call of apply_orthography_rules is being followed
NoRules == [first |-> <<>>, second |-> <<>>, results |-> <<>>]

----------------------------------------------------------------------------
(* Keys: a chord is a set of keys.                                         *)

\* enum Key, in steno order
KeyOrder == <<"#", "S", "T", "K", "P", "W", "H", "R", "A", "O", "*", "E",
              "U", "F", "R2", "P2", "B", "L", "G", "T2", "S2", "D", "Z">>

KeyIndex(key) == CHOOSE i \in 1..Len(KeyOrder) : KeyOrder[i] = key

\* Key::to_char
to_char(key) ==
   CASE key = "R2" -> "R"
     [] key = "P2" -> "P"
     [] key = "S2" -> "S"
     [] key = "T2" -> "T"
     [] OTHER -> key

\* Key::other_before, as an Option
other_before(key) ==
   CASE key = "R2" -> <<"R">>
     [] key = "P2" -> <<"P">>
     [] key = "S2" -> <<"S">>
     [] key = "T2" -> <<"T">>
     [] OTHER -> <<>>

\* Keys::remove: the keys are removed only when all of them are present
KeysContainsAll(keys, removed) == removed \subseteq keys

KeysRemove(keys, removed) ==
   IF KeysContainsAll(keys, removed) THEN keys \ removed ELSE keys

RECURSIVE FormatFrom(_, _)
FormatFrom(i, keys) ==
   IF i > Len(KeyOrder) THEN <<>>
   ELSE LET key == KeyOrder[i]
            first == other_before(key)
            needs_dash ==
               /\ first # <<>>
               /\ ~ \E k \in keys : /\ KeyIndex(k) >= KeyIndex(first[1])
                                    /\ KeyIndex(k) < i
        IN (IF key \in keys
            THEN (IF needs_dash THEN <<"-">> ELSE <<>>) \o <<to_char(key)>>
            ELSE <<>>) \o FormatFrom(i + 1, keys)

\* The keys' characters without any dash
Format_NoDash(keys) == SelectSeq(FormatFrom(1, keys), LAMBDA ch : ch # "-")

\* impl Display for Keys (not alternate)
Format(keys) == FormatFrom(1, keys)

\* Keys::single and Keys::bits: one bit for each key, in the order of enum Key
KeyBit(key) == 2 ^ (KeyIndex(key) - 1)

RECURSIVE BitsFrom(_, _)
BitsFrom(i, keys) ==
   IF i > Len(KeyOrder) THEN 0
   ELSE (IF KeyOrder[i] \in keys THEN KeyBit(KeyOrder[i]) ELSE 0)
        + BitsFrom(i + 1, keys)

bits(keys) == BitsFrom(1, keys)

\* do_double! of Keys::from_str
do_double(ret, prev_dash, first, second) ==
   IF prev_dash \/ bits(ret) >= KeyBit(first) THEN {second} ELSE {first}

\* The match on the character in Keys::from_str, as an Option of the keys
CharKeys(ch, ret, prev_dash) ==
   CASE ch = "S" -> <<do_double(ret, prev_dash, "S", "S2")>>
     [] ch = "T" -> <<do_double(ret, prev_dash, "T", "T2")>>
     [] ch = "P" -> <<do_double(ret, prev_dash, "P", "P2")>>
     [] ch = "R" -> <<do_double(ret, prev_dash, "R", "R2")>>
     [] ch \in {"H", "*", "F", "L", "D", "K", "W", "B", "G", "Z", "A", "O",
                "E", "U", "#"} -> <<{ch}>>
     [] ch = "1" -> <<{"#", "S"}>>
     [] ch = "2" -> <<{"#", "T"}>>
     [] ch = "3" -> <<{"#", "P"}>>
     [] ch = "4" -> <<{"#", "H"}>>
     [] ch = "5" -> <<{"#", "A"}>>
     [] ch = "0" -> <<{"#", "O"}>>
     [] ch = "6" -> <<{"#", "F"}>>
     [] ch = "7" -> <<{"#", "P2"}>>
     [] ch = "8" -> <<{"#", "L"}>>
     [] ch = "9" -> <<{"#", "T2"}>>
     [] OTHER -> <<>>

\* The loop of Keys::from_str from character i on; <<>> is an Err
RECURSIVE FromStrLoop(_, _, _, _)
FromStrLoop(part, i, ret, prev_dash) ==
   IF i > Len(part) THEN (IF prev_dash THEN <<>> ELSE <<ret>>)
   ELSE IF part[i] = "-" THEN FromStrLoop(part, i + 1, ret, TRUE)
   ELSE LET new == CharKeys(part[i], ret, prev_dash)
        IN IF new = <<>> THEN <<>>
           ELSE IF (ret \cap new[1]) \ {"#"} # {} THEN <<>>
           ELSE FromStrLoop(part, i + 1, ret \cup new[1], FALSE)

\* impl FromStr for Keys, as an Option
from_str(part) == FromStrLoop(part, 1, {}, FALSE)

NUMBERS == << <<"S", "1">>, <<"T", "2">>, <<"P", "3">>, <<"H", "4">>,
              <<"A", "5">>, <<"O", "0">>, <<"F", "6">>, <<"P2", "7">>,
              <<"L", "8">>, <<"T2", "9">> >>

Digits == {"0", "1", "2", "3", "4", "5", "6", "7", "8", "9"}

RECURSIVE NumberDigits(_, _)
NumberDigits(i, keys) ==
   IF i > Len(NUMBERS) THEN <<>>
   ELSE (IF NUMBERS[i][1] \in keys THEN <<NUMBERS[i][2]>> ELSE <<>>)
        \o NumberDigits(i + 1, keys)

Reverse_Same(s) == s

Reverse(s) == [i \in 1..Len(s) |-> s[Len(s) + 1 - i]]

\* make_numbers without the test of the keys left over
make_numbers_IgnoresLeftover(this_keys) ==
   LET keys0 == this_keys \ {"#"}
       ret0 == NumberDigits(1, keys0)
       keys1 == keys0 \ {NUMBERS[i][1] : i \in 1..Len(NUMBERS)}
       eu == KeysContainsAll(keys1, {"E", "U"})
       ret1 == IF eu THEN Reverse(ret0) ELSE ret0
       keys2 == KeysRemove(keys1, {"E", "U"})
       dz == KeysContainsAll(keys2, {"D", "Z"})
       d == ~dz /\ "D" \in keys2
       ret2a == IF d THEN ret1 \o ret1 ELSE ret1
       z == ~dz /\ "Z" \in keys2
       ret2 == IF dz THEN <<"$">> \o ret1 \o <<"0", "0">>
               ELSE IF z THEN ret2a \o <<"0", "0">> ELSE ret2a
       keys3 == keys2 \ {"D", "Z"}
       k == "K" \in keys3
       bg == ~k /\ KeysContainsAll(keys3, {"B", "G"})
       ret3 == IF k \/ bg THEN ret2 \o <<":", "0", "0">> ELSE ret2
   IN IF ret0 = <<>> THEN <<>> ELSE <<ret3>>

\* make_numbers, as an Option
make_numbers(this_keys) ==
   LET keys0 == this_keys \ {"#"}
       ret0 == NumberDigits(1, keys0)
       keys1 == keys0 \ {NUMBERS[i][1] : i \in 1..Len(NUMBERS)}
       eu == KeysContainsAll(keys1, {"E", "U"})
       ret1 == IF eu THEN Reverse(ret0) ELSE ret0
       keys2 == KeysRemove(keys1, {"E", "U"})
       dz == KeysContainsAll(keys2, {"D", "Z"})
       d == ~dz /\ "D" \in keys2
       ret2a == IF d THEN ret1 \o ret1 ELSE ret1
       z == ~dz /\ "Z" \in keys2
       ret2 == IF dz THEN <<"$">> \o ret1 \o <<"0", "0">>
               ELSE IF z THEN ret2a \o <<"0", "0">> ELSE ret2a
       keys3 == keys2 \ {"D", "Z"}
       k == "K" \in keys3
       bg == ~k /\ KeysContainsAll(keys3, {"B", "G"})
       ret3 == IF k \/ bg THEN ret2 \o <<":", "0", "0">> ELSE ret2
       keys4 == IF k THEN keys3 \ {"K"}
                ELSE IF bg THEN keys3 \ {"B", "G"} ELSE keys3
   IN IF ret0 = <<>> THEN <<>>
      ELSE IF keys4 # {} THEN <<>>
      ELSE <<ret3>>

\* split_suffix, as an Option of <<without_suffix, suffix>>
SuffixKeys == {"G", "S2", "D", "Z"}

split_suffix(keys) ==
   IF keys \cap SuffixKeys # {}
   THEN << <<keys \ SuffixKeys, keys \cap SuffixKeys>> >>
   ELSE <<>>

----------------------------------------------------------------------------
(* Entries.                                                                *)

Part(t, text, b) == [t |-> t, text |-> text, b |-> b]

Verbatim(text) == Part("Verbatim", text, FALSE)

Suffix(text) == Part("Suffix", text, FALSE)

Glue(text) == Part("Glue", text, FALSE)

\* SpecialPunct where every mark ends a sentence
SpecialPunct_AllEnd(punct) == Part("SpecialPunct", <<punct>>, TRUE)

\* SpecialPunct with is_sentence_end
SpecialPunct(punct) == Part("SpecialPunct", <<punct>>, punct \in {".", "!", "?"})

SetCaps(b) == Part("SetCaps", <<>>, b)

SetSpace(b) == Part("SetSpace", <<>>, b)

CarryToNext == Part("CarryToNext", <<>>, FALSE)

Backspace == Part("Backspace", <<>>, FALSE)

Quit == Part("Quit", <<>>, FALSE)

Reset == Part("Reset", <<>>, FALSE)

IsCommand(part) == part.t \in {"Backspace", "Quit", "Reset"}

----------------------------------------------------------------------------
(* The dictionary and the word list the engine is built with.              *)

cT == {"T"}
cH == {"H"}
cO == {"O"}
cD == {"D"}
cG == {"G"}
cTD == {"T", "D"}
cSTAR == {"*"}
cKPA == {"K", "P", "A"}
cW == {"W"}
cP == {"P2"}
cX == {"K", "P", "*"}
cR == {"R"}
cQ == {"K", "W"}
cA == {"A"}
cF == {"F"}
cB == {"B"}
cRD == {"R", "D"}
cHG == {"H", "G"}
cWG == {"W", "G"}
cHD == {"H", "D"}
cLOW == {"L"}
cNOSP == {"S", "P"}
cCARRY == {"K", "A"}
cCOMMA == {"W", "B"}
cCOLON == {"K", "L"}
cSEMI == {"S", "R"}
cBANG == {"T", "P"}
cQUERY == {"H", "F"}
cE == {"E"}
cNW == {"#", "W"}
cNR == {"#", "R"}
cNSW == {"#", "S", "W"}
cNWD == {"#", "W", "D"}
cNS == {"#", "S"}
cNST == {"#", "S", "T"}
cNSK == {"#", "S", "K"}
cU == {"U"}

DictMap ==
   (<<cT>> :> <<Verbatim(<<"t", "i", "e">>)>>)
   @@ (<<cH>> :> <<Verbatim(<<"h", "e">>)>>)
   @@ (<<cH, cO>> :> <<Verbatim(<<"h", "e", "y">>)>>)
   @@ (<<cD>> :> <<Suffix(<<"e", "d">>)>>)
   @@ (<<cG>> :> <<Suffix(<<"i", "n", "g">>)>>)
   @@ (<<cD, cW>> :> <<Suffix(<<"i", "n", "g">>)>>)
   @@ (<<cSTAR>> :> <<Backspace>>)
   @@ (<<cKPA>> :> <<SetCaps(TRUE)>>)
   @@ (<<cP>> :> <<SpecialPunct(".")>>)
   @@ (<<cX>> :> <<Glue(<<"x">>)>>)
   @@ (<<cR>> :> <<Reset>>)
   @@ (<<cQ>> :> <<Quit>>)
   @@ (<<cA>> :> <<Verbatim(<<"a">>), Backspace>>)
   @@ (<<cF>> :> <<Verbatim(<<"q">>), Quit, Verbatim(<<"z">>)>>)
   @@ (<<cT, cB>> :> <<Verbatim(<<"b">>), Reset>>)
   @@ (<<cO>> :> <<Verbatim(<<"o", "h">>)>>)
   @@ (<<cO, cH>> :> <<Verbatim(<<"o", "h", "o">>)>>)
   @@ (<<cHG>> :> <<Verbatim(<<"h", "u", "g">>)>>)
   @@ (<<cH, cHG, cO>> :> <<Verbatim(<<"h", "u", "g", "o">>)>>)
   @@ (<<cLOW>> :> <<SetCaps(FALSE)>>)
   @@ (<<cNOSP>> :> <<SetSpace(FALSE)>>)
   @@ (<<cCARRY>> :> <<CarryToNext>>)
   @@ (<<cCOMMA>> :> <<SpecialPunct(",")>>)
   @@ (<<cCOLON>> :> <<SpecialPunct(":")>>)
   @@ (<<cSEMI>> :> <<SpecialPunct(";")>>)
   @@ (<<cBANG>> :> <<SpecialPunct("!")>>)
   @@ (<<cQUERY>> :> <<SpecialPunct("?")>>)
   @@ (<<cE>> :> <<Verbatim(<<"\\xC3", "\\x80", "\\xC3", "\\x80",
                              "\\xC3", "\\x80">>)>>)
   @@ (<<cNW>> :> <<Verbatim(<<"n", "o", "w">>)>>)
   @@ (<<cT, cNR>> :> <<Verbatim(<<"t", "i", "e", "r">>)>>)
   @@ (<<cNST>> :> <<Verbatim(<<"d", "o", "z", "e", "n">>)>>)
   @@ (<<cU>> :> <<Backspace, Verbatim(<<"u">>)>>)
   @@ (<<cU, cB>> :> <<Verbatim(<<"u", "b">>)>>)

Max(a, b) == IF a >= b THEN a ELSE b

RECURSIVE MaxLenOf(_)
MaxLenOf(keyset) ==
   IF keyset = {} THEN 1
   ELSE LET key == CHOOSE key \in keyset : TRUE
        IN Max(Len(key), MaxLenOf(keyset \ {key}))

\* Dict::get, as an Option
DictGet(strokes) ==
   IF strokes \in DOMAIN DictMap THEN <<DictMap[strokes]>> ELSE <<>>

\* A max_strokes that is less than the strokes of the longest key
max_strokes_Short == MaxLenOf(DOMAIN DictMap) - 1

\* Dict::max_strokes
max_strokes == MaxLenOf(DOMAIN DictMap)

WordListSet == { <<"h", "e", "e", "d">> }

\* WordList::contains
WordListContains(word) == word \in WordListSet

----------------------------------------------------------------------------
(* Output: the edit script being accumulated.                              *)

OutputDefault ==
   [delete_words |-> 0, delete |-> CharsOrBytesDefault, append |-> <<>>]

\* Output::delete
OutputDelete(out, amount) ==
   IF amount.bytes <= Len(out.append)
   THEN [out EXCEPT !.append = SubSeq(@, 1, Len(@) - amount.bytes)]
   ELSE [out EXCEPT
            !.delete = CharsOrBytesAdd(@, CharsOrBytesSub(amount, for_str(out.append))),
            !.append = <<>>]

\* The assertion of Output::delete_words
DeleteWordsAssert(out) == out.append = <<>>

\* Output::delete_words, when its assertion holds
OutputDeleteWords(out, words) == [out EXCEPT !.delete_words = @ + words]

\* Output::append
OutputAppend(out, text) == [out EXCEPT !.append = @ \o text]

\* Output::clear that forgets the deletions
OutputClearAppendOnly(out) == [out EXCEPT !.append = <<>>]

\* Output::clear
OutputClear(out) == OutputDefault

\* Output::apply_to_buffer, on the text of the surface
RECURSIVE PopBack(_, _)
PopBack(buffer, n) ==
   IF n = 0 \/ buffer = <<>> THEN buffer ELSE PopBack(Front(buffer), n - 1)

apply_to_buffer(out, buffer) ==
   (IF out.delete_words = 0 THEN PopBack(buffer, out.delete.bytes) ELSE <<>>)
   \o out.append

\* str::is_char_boundary
is_char_boundary(s, index) ==
   \/ index = 0
   \/ index = Len(s)
   \/ index < Len(s) /\ s[index + 1] \notin ContinuationBytes

\* floor_char_boundary_p: the first boundary met going down from index
floor_char_boundary_p(s, index) ==
   IF index >= Len(s) THEN Len(s)
   ELSE LET lower_bound == Max(index - 3, 0)
            boundaries == {i \in lower_bound..index : is_char_boundary(s, i)}
        IN CHOOSE i \in boundaries : \A j \in boundaries : j <= i

\* zip(..).take_while(|(a, b)| a == b).count()
RECURSIVE SameBytes(_, _)
SameBytes(a, b) ==
   IF a = <<>> \/ b = <<>> \/ Head(a) # Head(b) THEN 0
   ELSE 1 + SameBytes(Tail(a), Tail(b))

\* Output::diff_with_buffer that cuts where the bytes begin to differ
diff_with_buffer_AnyByte(out, buffer) ==
   IF out.delete_words # 0 \/ Len(buffer.inner) < out.delete.bytes THEN out
   ELSE LET buf_first_index == Len(buffer.inner) - out.delete.bytes
            same_bytes ==
               SameBytes(SubSeq(buffer.inner, buf_first_index + 1,
                                Len(buffer.inner)),
                         out.append)
        IN [out EXCEPT
              !.delete = CharsOrBytesSub(@, for_str(SubSeq(out.append, 1, same_bytes))),
              !.append = SubSeq(@, same_bytes + 1, Len(@))]

\* Output::diff_with_buffer
diff_with_buffer(out, buffer) ==
   IF out.delete_words # 0 THEN out
   ELSE IF Len(buffer.inner) < out.delete.bytes THEN out
   ELSE LET buf_first_index == Len(buffer.inner) - out.delete.bytes
            same_bytes ==
               floor_char_boundary_p(
                  out.append,
                  SameBytes(SubSeq(buffer.inner, buf_first_index + 1,
                                   Len(buffer.inner)),
                            out.append))
        IN [out EXCEPT
              !.delete = CharsOrBytesSub(@, for_str(SubSeq(out.append, 1, same_bytes))),
              !.append = SubSeq(@, same_bytes + 1, Len(@))]

\* BoundedQueue::push of each byte in turn
RECURSIVE PushBytes(_, _)
PushBytes(queue, bytes) ==
   IF bytes = <<>> THEN queue
   ELSE PushBytes([queue EXCEPT !.inner =
                      (IF Len(@) = queue.capacity THEN Tail(@) ELSE @)
                      \o <<Head(bytes)>>],
                  Tail(bytes))

\* Output::apply_to_buffer, on the frontend's BoundedQueue of bytes
apply_to_queue(out, buffer) ==
   PushBytes([buffer EXCEPT !.inner =
                 IF out.delete_words = 0
                 THEN PopBack(@, out.delete.bytes)
                 ELSE <<>>],
             out.append)

\* Output::use_buffer: the Output and the buffer afterwards
use_buffer(out, buffer) ==
   [output |-> diff_with_buffer(out, buffer),
    buffer |-> apply_to_queue(diff_with_buffer(out, buffer), buffer)]

----------------------------------------------------------------------------
(* The engine.                                                             *)

\* const BACKLOG_DEPTH (1000 in the program)
BACKLOG_DEPTH == MaxBacklog

\* InputState::INITIAL
INITIAL == [caps |-> TRUE, space |-> FALSE, carry_to_next |-> FALSE, glue |-> FALSE]

\* BoundedQueue::new: VecDeque::with_capacity(bound) allocates room for at
\* least bound elements; how much more is up to the standard library.
BoundedQueueNew(bound) ==
   {[inner |-> <<>>, capacity |-> c] : c \in bound..(bound + MaxSlack)}

\* BoundedQueue::push
BoundedQueuePush(queue, item) ==
   [queue EXCEPT !.inner =
      (IF Len(@) = queue.capacity THEN Tail(@) ELSE @) \o <<item>>]

\* BoundedQueue::last_n
last_n(queue, n) ==
   SubSeq(queue.inner, Max(Len(queue.inner) - n, 0) + 1, Len(queue.inner))

\* Steno::new.  res is the outcome of the last run_keys call: "ok", "quit",
\* or the assertion that failed.  The counters record what the last
\* run_keys call did: the strokes Backspace re-ran, the pops attempted on an
\* empty backlog, the events evicted and the events pushed.
StenoNew ==
   {[state |-> INITIAL,
     backlog |-> queue,
     output_in_progress |-> OutputDefault,
     backlog_entry_in_progress |-> <<>>,
     res |-> "ok",
     rerun |-> 0,
     empty_pops |-> 0,
     evicted |-> 0,
     pushed |-> 0] : queue \in BoundedQueueNew(BACKLOG_DEPTH)}

InputEvent(strokes, replaced_previous, text, state_before) ==
   [strokes |-> strokes, replaced_previous |-> replaced_previous,
    text |-> text, state_before |-> state_before]

Action(entry, strokes, removed_suffix, delete_before) ==
   [entry |-> entry, strokes |-> strokes,
    removed_suffix |-> removed_suffix, delete_before |-> delete_before]

make_simple_action(entry, keys) == Action(entry, <<keys>>, <<>>, 0)

make_text_action(text, keys) == make_simple_action(<<Verbatim(text)>>, keys)

\* make_fallback_action that formats the chord without its suffix keys
make_fallback_action_Body(keys) ==
   make_text_action(Format(keys \ SuffixKeys), keys)

make_fallback_action(keys) == make_text_action(Format(keys), keys)

RECURSIVE FlatStrokes(_)
FlatStrokes(events) ==
   IF events = <<>> THEN <<>>
   ELSE events[1].strokes \o FlatStrokes(Tail(events))

\* The loop of find_action trying the shortest slice first: the last i
\* events of the window are taken.
RECURSIVE FindLoopShortestFirst(_, _, _, _)
FindLoopShortestFirst(events, i, this_keys, split) ==
   IF i > Len(events) THEN make_fallback_action(this_keys)
   ELSE LET these_events == SubSeq(events, Len(events) - i + 1, Len(events))
            before == FlatStrokes(these_events)
            these_strokes == before \o <<this_keys>>
            exact == DictGet(these_strokes)
            without == IF split = <<>> THEN <<>>
                       ELSE DictGet(before \o <<split[1][1]>>)
        IN IF exact # <<>>
           THEN Action(exact[1], these_strokes, <<>>, Len(these_events))
           ELSE IF without # <<>>
           THEN Action(without[1], these_strokes, <<split[1][2]>>, Len(these_events))
           ELSE FindLoopShortestFirst(events, i + 1, this_keys, split)

\* The loop of find_action: i events of the window have been skipped.
RECURSIVE FindLoop(_, _, _, _)
FindLoop(events, i, this_keys, split) ==
   IF i > Len(events) THEN make_fallback_action(this_keys)
   ELSE LET these_events == SubSeq(events, i + 1, Len(events))
            before == FlatStrokes(these_events)
            these_strokes == before \o <<this_keys>>
            exact == DictGet(these_strokes)
            without == IF split = <<>> THEN <<>>
                       ELSE DictGet(before \o <<split[1][1]>>)
        IN IF exact # <<>>
           THEN Action(exact[1], these_strokes, <<>>, Len(these_events))
           ELSE IF without # <<>>
           THEN Action(without[1], these_strokes, <<split[1][2]>>, Len(these_events))
           ELSE FindLoop(events, i + 1, this_keys, split)

\* Steno::find_action
find_action(s, this_keys) ==
   LET number == IF "#" \in this_keys THEN make_numbers(this_keys) ELSE <<>>
       splitKeys == split_suffix(this_keys)
       split == IF splitKeys # <<>> /\ DictGet(<<splitKeys[1][2]>>) # <<>>
                THEN << <<splitKeys[1][1], DictGet(<<splitKeys[1][2]>>)[1]>> >>
                ELSE <<>>
   IN IF number # <<>>
      THEN make_simple_action(
              IF \A i \in 1..Len(number[1]) : number[1][i] \in Digits
              THEN <<Glue(number[1])>>
              ELSE <<Verbatim(number[1])>>, this_keys)
      ELSE FindLoop(last_n(s.backlog, max_strokes), 0, this_keys, split)

Fail(s, why) == [s EXCEPT !.res = why]

\* delete_full_entry that leaves the event in the backlog
delete_full_entry_KeepsEvent(s) ==
   IF s.backlog.inner # <<>>
   THEN LET entry == Last(s.backlog.inner)
            s1 == [s EXCEPT
                     !.state = entry.state_before,
                     !.output_in_progress = OutputDelete(@, for_str(entry.text))]
        IN [s |-> s1, entry |-> <<entry>>]
   ELSE [s |-> IF DeleteWordsAssert(s.output_in_progress)
               THEN [s EXCEPT !.output_in_progress = OutputDeleteWords(@, 1),
                              !.empty_pops = @ + 1]
               ELSE [Fail(s, "assert_delete_words") EXCEPT !.empty_pops = @ + 1],
         entry |-> <<>>]

\* delete_full_entry without the restore of the InputState
delete_full_entry_KeepsState(s) ==
   IF s.backlog.inner # <<>>
   THEN LET entry == Last(s.backlog.inner)
            rest == Front(s.backlog.inner)
            s1 == [s EXCEPT
                     !.backlog.inner = rest,
                     !.output_in_progress = OutputDelete(@, for_str(entry.text))]
        IN [s |-> IF /\ entry.replaced_previous
                     /\ Len(entry.strokes) = 1
                     /\ rest # <<>>
                  THEN [s1 EXCEPT !.output_in_progress =
                                     OutputAppend(@, Last(rest).text)]
                  ELSE s1,
            entry |-> <<entry>>]
   ELSE [s |-> IF DeleteWordsAssert(s.output_in_progress)
               THEN [s EXCEPT !.output_in_progress = OutputDeleteWords(@, 1),
                              !.empty_pops = @ + 1]
               ELSE [Fail(s, "assert_delete_words") EXCEPT !.empty_pops = @ + 1],
         entry |-> <<>>]

\* Steno::delete_full_entry: the engine afterwards and the popped event
delete_full_entry(s) ==
   IF s.backlog.inner # <<>>
   THEN LET entry == Last(s.backlog.inner)
            rest == Front(s.backlog.inner)
            s1 == [s EXCEPT
                     !.backlog.inner = rest,
                     !.state = entry.state_before,
                     !.output_in_progress = OutputDelete(@, for_str(entry.text))]
        IN [s |-> IF /\ entry.replaced_previous
                     /\ Len(entry.strokes) = 1
                     /\ rest # <<>>
                  THEN [s1 EXCEPT !.output_in_progress =
                                     OutputAppend(@, Last(rest).text)]
                  ELSE s1,
            entry |-> <<entry>>]
   ELSE [s |-> IF DeleteWordsAssert(s.output_in_progress)
               THEN [s EXCEPT !.output_in_progress = OutputDeleteWords(@, 1),
                              !.empty_pops = @ + 1]
               ELSE [Fail(s, "assert_delete_words") EXCEPT !.empty_pops = @ + 1],
         entry |-> <<>>]

\* The loop `for _ in 0..action.delete_before` of run_action
RECURSIVE DeleteBefore(_, _)
DeleteBefore(s, n) ==
   IF n = 0 \/ s.res # "ok" THEN s
   ELSE DeleteBefore(delete_full_entry(s).s, n - 1)

\* Steno::append
StenoAppend(s, text) ==
   [s EXCEPT !.output_in_progress = OutputAppend(@, text),
             !.backlog_entry_in_progress = @ \o text]

\* append_capsed that gives the text in progress the text as it was passed,
\* not the upper-cased slice of the output
append_capsed_TextAsPassed(s, text, caps) ==
   [s EXCEPT !.output_in_progress =
                OutputAppend(@, IF caps /\ text # <<>>
                                THEN <<ByteUpper(text[1])>> \o Tail(text)
                                ELSE text),
             !.backlog_entry_in_progress = @ \o text]

\* Steno::append_capsed
append_capsed(s, text, caps) ==
   StenoAppend(s, IF caps /\ text # <<>>
             THEN <<ByteUpper(text[1])>> \o Tail(text)
             ELSE text)

\* run_verbatim that reads carry_to_next and leaves it set
run_verbatim_CarryStays(s, text) ==
   LET s1 == [s EXCEPT !.state.glue = FALSE]
       s2 == IF s1.state.space THEN StenoAppend(s1, <<" ">>) ELSE s1
       s3 == append_capsed(s2, text, s2.state.caps)
   IN IF s3.state.carry_to_next
      THEN s3
      ELSE [s3 EXCEPT !.state.caps = FALSE, !.state.space = TRUE]

\* Steno::run_verbatim
run_verbatim(s, text) ==
   LET s1 == [s EXCEPT !.state.glue = FALSE]
       s2 == IF s1.state.space THEN StenoAppend(s1, <<" ">>) ELSE s1
       s3 == append_capsed(s2, text, s2.state.caps)
   IN IF s3.state.carry_to_next
      THEN [s3 EXCEPT !.state.carry_to_next = FALSE]
      ELSE [s3 EXCEPT !.state.caps = FALSE, !.state.space = TRUE]

\* Steno::take_in_progress: the engine afterwards and the text taken
take_in_progress(s) ==
   IF s.backlog_entry_in_progress = <<>> THEN [s |-> s, text |-> <<>>]
   ELSE [s |-> [s EXCEPT
                  !.backlog_entry_in_progress = <<>>,
                  !.output_in_progress =
                     OutputDelete(@, for_str(s.backlog_entry_in_progress))],
         text |-> <<s.backlog_entry_in_progress>>]

\* Steno::remove_previous: the engine afterwards and <<text, source>>
remove_previous(s) ==
   LET taken == take_in_progress(s)
   IN IF taken.text # <<>>
      THEN [s |-> taken.s, previous |-> << <<taken.text[1], "InProgress">> >>]
      ELSE IF s.backlog.inner # <<>>
      THEN LET text == Last(s.backlog.inner).text
           IN [s |-> [s EXCEPT !.output_in_progress = OutputDelete(@, for_str(text))],
               previous |-> << <<text, "Backlog">> >>]
      ELSE [s |-> s, previous |-> <<>>]

\* The Suffix arm with the orthography rules tried before the word list is
\* asked
RunSuffix_RulesFirst(s, suffix) ==
   LET removed == remove_previous(s)
       s1 == [removed.s EXCEPT !.state.space = FALSE]
   IN IF removed.previous # <<>>
      THEN LET previous_text == removed.previous[1][1]
               combined == apply_orthography_rules(previous_text, suffix)
           IN [s |-> IF combined # <<>>
                     THEN run_verbatim(s1, combined[1])
                     ELSE StenoAppend(run_verbatim(s1, previous_text), suffix),
               replaced |-> removed.previous[1][2] = "Backlog"]
      ELSE [s |-> run_verbatim(s1, suffix), replaced |-> FALSE]

\* The Suffix arm where a suffix that finds no previous text is appended as
\* it is
RunSuffix_AppendsAlone(s, suffix) ==
   LET removed == remove_previous(s)
       s1 == [removed.s EXCEPT !.state.space = FALSE]
   IN IF removed.previous # <<>>
      THEN LET previous_text == removed.previous[1][1]
               without_rules == make_ascii_lowercase(previous_text \o suffix)
               combined == IF ~WordListContains(Trim(without_rules))
                           THEN apply_orthography_rules(previous_text, suffix)
                           ELSE <<>>
           IN [s |-> IF combined # <<>>
                     THEN run_verbatim(s1, combined[1])
                     ELSE StenoAppend(run_verbatim(s1, previous_text), suffix),
               replaced |-> removed.previous[1][2] = "Backlog"]
      ELSE [s |-> StenoAppend(s1, suffix), replaced |-> FALSE]

\* The EntryPart::Suffix arm of run_action
RunSuffix(s, suffix) ==
   LET removed == remove_previous(s)
       s1 == [removed.s EXCEPT !.state.space = FALSE]
   IN IF removed.previous # <<>>
      THEN LET previous_text == removed.previous[1][1]
               without_rules == make_ascii_lowercase(previous_text \o suffix)
               combined == IF ~WordListContains(Trim(without_rules))
                           THEN apply_orthography_rules(previous_text, suffix)
                           ELSE <<>>
           IN [s |-> IF combined # <<>>
                     THEN run_verbatim(s1, combined[1])
                     ELSE StenoAppend(run_verbatim(s1, previous_text), suffix),
               replaced |-> removed.previous[1][2] = "Backlog"]
      ELSE [s |-> run_verbatim(s1, suffix), replaced |-> FALSE]

RECURSIVE run_keys(_, _, _)
RECURSIVE RunParts(_, _, _, _, _)
RECURSIVE Redo(_, _, _, _)

\* Steno::undo_stroke
undo_stroke(s, nest) ==
   LET deleted == delete_full_entry(s)
   IN IF deleted.entry = <<>> \/ deleted.s.res # "ok" THEN deleted.s
      ELSE Redo(deleted.s, Front(deleted.entry[1].strokes), 1, nest)

\* The loop `for &stroke in redo` of undo_stroke
Redo(s, redo, i, nest) ==
   IF i > Len(redo) \/ s.res # "ok" THEN s
   ELSE IF nest >= MaxNest THEN Fail(s, "nest")
   ELSE Redo(run_keys([s EXCEPT !.rerun = @ + 1], redo[i], nest + 1),
             redo, i + 1, nest)

\* One arm of the match of run_action: the engine afterwards and whether a
\* backlog event was replaced
RunPart(s, part, nest) ==
   CASE part.t = "Verbatim" ->
           [s |-> run_verbatim(s, part.text), replaced |-> FALSE]
     [] part.t = "Suffix" -> RunSuffix(s, part.text)
     [] part.t = "SpecialPunct" ->
           [s |-> [StenoAppend(s, part.text) EXCEPT !.state.space = TRUE,
                                               !.state.caps = part.b],
            replaced |-> FALSE]
     [] part.t = "SetCaps" ->
           [s |-> [s EXCEPT !.state.caps = part.b], replaced |-> FALSE]
     [] part.t = "SetSpace" ->
           [s |-> [s EXCEPT !.state.space = part.b], replaced |-> FALSE]
     [] part.t = "CarryToNext" ->
           [s |-> [s EXCEPT !.state.carry_to_next = TRUE], replaced |-> FALSE]
     [] part.t = "Glue" ->
           [s |-> [(IF s.state.glue THEN StenoAppend(s, part.text)
                    ELSE run_verbatim(s, part.text))
                   EXCEPT !.state.glue = TRUE],
            replaced |-> FALSE]
     [] part.t = "Backspace" ->
           [s |-> IF s.backlog_entry_in_progress # <<>>
                  THEN Fail(s, "assert_backspace")
                  ELSE undo_stroke(s, nest),
            replaced |-> FALSE]
     [] part.t = "Quit" -> [s |-> Fail(s, "quit"), replaced |-> FALSE]
     [] part.t = "Reset" ->
           [s |-> [s EXCEPT !.state = INITIAL,
                            !.backlog.inner = <<>>,
                            !.backlog_entry_in_progress = <<>>,
                            !.output_in_progress = OutputClear(@)],
            replaced |-> FALSE]

\* The loop over the parts of run_action
RunParts(s, parts, i, replaced_previous, nest) ==
   IF i > Len(parts) \/ s.res # "ok"
   THEN [s |-> s, replaced_previous |-> replaced_previous]
   ELSE LET r == RunPart(s, parts[i], nest)
        IN RunParts(r.s, parts, i + 1, replaced_previous \/ r.replaced, nest)

\* PushEvent without the test of the accumulated text
PushEventAlways(s, strokes, replaced_previous, state_before) ==
   [s EXCEPT
      !.backlog = BoundedQueuePush(@,
         InputEvent(strokes, replaced_previous,
                    s.backlog_entry_in_progress, state_before)),
      !.backlog_entry_in_progress = <<>>,
      !.pushed = @ + 1,
      !.evicted = IF Len(s.backlog.inner) = s.backlog.capacity
                  THEN @ + 1 ELSE @]

\* The end of run_action: the event is pushed when text was appended
PushEvent(s, strokes, replaced_previous, state_before) ==
   IF s.backlog_entry_in_progress # <<>>
   THEN [s EXCEPT
           !.backlog = BoundedQueuePush(@,
              InputEvent(strokes, replaced_previous,
                         s.backlog_entry_in_progress, state_before)),
           !.backlog_entry_in_progress = <<>>,
           !.pushed = @ + 1,
           !.evicted = IF Len(s.backlog.inner) = s.backlog.capacity
                       THEN @ + 1 ELSE @]
   ELSE s

\* run_action with state_before taken before the consumed events are popped
run_action_StateBeforePops(s, action, nest) ==
   IF s.backlog_entry_in_progress # <<>> THEN Fail(s, "assert_start")
   ELSE LET s1 == DeleteBefore(s, action.delete_before)
            state_before == s.state
            parts == action.entry \o
                     (IF action.removed_suffix = <<>> THEN <<>>
                      ELSE action.removed_suffix[1])
            r == RunParts(s1, parts, 1, FALSE, nest)
        IN IF r.s.res # "ok" THEN r.s
           ELSE PushEvent(r.s, action.strokes, r.replaced_previous, state_before)

\* run_action where Quit leaves the loop over the parts instead of returning
run_action_QuitBreaks(s, action, nest) ==
   IF s.backlog_entry_in_progress # <<>> THEN Fail(s, "assert_start")
   ELSE LET s1 == DeleteBefore(s, action.delete_before)
            state_before == s1.state
            parts == action.entry \o
                     (IF action.removed_suffix = <<>> THEN <<>>
                      ELSE action.removed_suffix[1])
            r == RunParts(s1, parts, 1, FALSE, nest)
        IN IF r.s.res \notin {"ok", "quit"} THEN r.s
           ELSE PushEvent(r.s, action.strokes, r.replaced_previous, state_before)

\* Steno::run_action
run_action(s, action, nest) ==
   IF s.backlog_entry_in_progress # <<>> THEN Fail(s, "assert_start")
   ELSE LET s1 == DeleteBefore(s, action.delete_before)
            state_before == s1.state
            parts == action.entry \o
                     (IF action.removed_suffix = <<>> THEN <<>>
                      ELSE action.removed_suffix[1])
            r == RunParts(s1, parts, 1, FALSE, nest)
        IN IF r.s.res # "ok" THEN r.s
           ELSE PushEvent(r.s, action.strokes, r.replaced_previous, state_before)

\* Steno::run_keys
run_keys(s, keys, nest) == run_action(s, find_action(s, keys), nest)

\* flush that hands over the appended text and keeps the deletions
flush_KeepsDeletes(s) == [s EXCEPT !.output_in_progress.append = <<>>]

\* Steno::flush: the engine afterwards (the Output returned is
\* s.output_in_progress)
flush(s) == [s EXCEPT !.output_in_progress = OutputDefault]

----------------------------------------------------------------------------
(* The program: a caller delivers chords to run_keys and flushes the       *)
(* pending output onto its surface.  log keeps what the last two run_keys  *)
(* calls were given and found; seen keeps what has happened so far.  batch *)
(* is a second engine, which a caller that flushes once at the end (as     *)
(* steno_to_string does) gives the same chords.                            *)

\* The text the surface holds once the pending output is applied
Pending(s, buffer) == apply_to_buffer(s.output_in_progress, buffer)

EntryOf(action) ==
   action.entry \o
   (IF action.removed_suffix = <<>> THEN <<>> ELSE action.removed_suffix[1])

CommandFree(action) ==
   \A i \in 1..Len(EntryOf(action)) : ~IsCommand(EntryOf(action)[i])

Call(keys) ==
   [keys |-> keys,
    action |-> find_action(steno, keys),
    state |-> steno.state,
    backlog |-> steno.backlog.inner,
    output |-> steno.output_in_progress,
    text |-> Pending(steno, surface),
    clean |-> seen.command_free /\ seen.evicted = 0,
    pushed |-> 0,
    flushed |-> FALSE]

\* Key::from_code, as an Option
from_code(code) ==
   CASE code \in 2..11 -> <<"#">>
     [] code = 16 -> <<"S">>
     [] code = 17 -> <<"T">>
     [] code = 18 -> <<"P">>
     [] code = 19 -> <<"H">>
     [] code = 20 -> <<"*">>
     [] code = 21 -> <<"F">>
     [] code = 22 -> <<"P2">>
     [] code = 23 -> <<"L">>
     [] code = 24 -> <<"T2">>
     [] code = 25 -> <<"D">>
     [] code = 30 -> <<"S">>
     [] code = 31 -> <<"K">>
     [] code = 32 -> <<"W">>
     [] code = 33 -> <<"R">>
     [] code = 34 -> <<"*">>
     [] code = 35 -> <<"R2">>
     [] code = 36 -> <<"B">>
     [] code = 37 -> <<"G">>
     [] code = 38 -> <<"S2">>
     [] code = 39 -> <<"Z">>
     [] code = 46 -> <<"A">>
     [] code = 47 -> <<"O">>
     [] code = 48 -> <<"E">>
     [] code = 49 -> <<"U">>
     [] OTHER -> <<>>

ESCAPE_KEY == 1

\* The buffer of a caller that keeps none
NoBuffer == [inner |-> <<>>, capacity |-> 0]

\* struct App of the input-method frontend, as run() builds it
AppNew(buffer) ==
   [should_exit |-> FALSE, keys_seen |-> {}, keys_current |-> {},
    buffer |-> buffer]

\* What the frontend is given and gives: the key codes held down on the
\* keyboard, the keys pressed since the last chord was delivered, the
\* chords delivered, the last of them, the codes held down when it was
\* delivered, and the Output given to run_output with the surface and the
\* buffer it met and the Output sent on
IoNew ==
   [held |-> {}, pressed |-> {}, deliveries |-> 0, chord |-> <<>>,
    chord_pressed |-> {}, chord_held |-> {},
    given |-> <<>>, sent |-> <<>>, before |-> <<>>, buffer_before |-> NoBuffer]

\* zwp_input_method_v2: delete_surrounding_text(before_length, 0), then
\* commit_string, applied by the compositor at the cursor
ImeCommit(text, before_length, append) == PopBack(text, before_length) \o append

\* App::run_output for Ok(output): the App and the surface afterwards
run_output(a, text, output) ==
   LET used == use_buffer(output, a.buffer)
   IN [app |-> [a EXCEPT !.buffer = used.buffer],
       surface |-> ImeCommit(text,
                             used.output.delete_words + used.output.delete.bytes,
                             used.output.append)]

\* App::key_pressed
key_pressed(a, key) ==
   [a EXCEPT !.keys_seen = @ \cup {key}, !.keys_current = @ \cup {key}]

\* The input-method frontend with its keyboard grab, before any key event
InitInput ==
   /\ steno \in StenoNew
   /\ surface = <<>>
   /\ calls = 0
   /\ log = <<>>
   /\ seen = [command_free |-> TRUE, flushes |-> 0, empty_pops |-> 0,
              evicted |-> 0, silent |-> 0, other_commands |-> FALSE]
   /\ batch = steno
   /\ app \in {AppNew(queue) : queue \in BoundedQueueNew(MaxBuffer)}
   /\ io = IoNew
   /\ ortho = NoRules

\* The frontend is in its dispatch loop and the keyboard can send an event
Dispatching ==
   /\ ~app.should_exit
   /\ steno.res = "ok"
   /\ calls < MaxCalls

\* The Key event of the keyboard grab with KeyState::Pressed
KeyPressed(code) ==
   /\ Dispatching
   /\ code \notin io.held
   /\ app' = IF code = ESCAPE_KEY THEN [app EXCEPT !.should_exit = TRUE]
             ELSE IF from_code(code) = <<>> THEN app
             ELSE key_pressed(app, from_code(code)[1])
   /\ io' = [io EXCEPT
               !.held = @ \cup {code},
               !.pressed = IF code = ESCAPE_KEY \/ from_code(code) = <<>>
                           THEN @ ELSE @ \cup {from_code(code)[1]}]
   /\ UNCHANGED <<steno, surface, calls, log, seen, batch, ortho>>

\* The Key event with KeyState::Released that App::key_released does not
\* answer with a chord
KeyReleasedQuietly(code) ==
   /\ Dispatching
   /\ code \in io.held
   /\ ~ (/\ code # ESCAPE_KEY
         /\ from_code(code) # <<>>
         /\ app.keys_current \ {from_code(code)[1]} = {}
         /\ app.keys_seen # {})
   /\ app' = IF code = ESCAPE_KEY THEN [app EXCEPT !.should_exit = TRUE]
             ELSE IF from_code(code) = <<>> THEN app
             ELSE [app EXCEPT !.keys_current = @ \ {from_code(code)[1]}]
   /\ io' = [io EXCEPT !.held = @ \ {code}]
   /\ UNCHANGED <<steno, surface, calls, log, seen, batch, ortho>>

\* The handler once the chord is complete: ran is the engine after
\* run_keys and done the frontend after run_output of the flushed Output
Deliver(code, keys, taken, ran, done) ==
   /\ steno' = IF ran.res = "ok" THEN flush(ran) ELSE ran
   /\ app' = IF ran.res = "ok" THEN done.app
             ELSE IF ran.res = "quit"
             THEN [taken EXCEPT !.should_exit = TRUE]
             ELSE taken
   /\ surface' = IF ran.res = "ok" THEN done.surface ELSE surface
   /\ calls' = calls + 1
   /\ log' = (IF Len(log) < 2 THEN log ELSE Tail(log))
             \o <<[Call(keys) EXCEPT !.pushed = ran.pushed,
                                     !.flushed = ran.res = "ok"]>>
   /\ seen' = [seen EXCEPT
                 !.flushes = IF ran.res = "ok" THEN @ + 1 ELSE @,
                 !.evicted = @ + ran.evicted]
   /\ io' = [io EXCEPT
               !.held = @ \ {code},
               !.pressed = {},
               !.deliveries = @ + 1,
               !.chord = <<keys>>,
               !.chord_pressed = io.pressed,
               !.chord_held = io.held \ {code}]
   /\ UNCHANGED <<batch, ortho>>

\* The Key event with KeyState::Released on which App::key_released gives
\* keys_seen to the engine and the flushed Output to run_output
KeyReleasedChord(code) ==
   /\ Dispatching
   /\ code \in io.held
   /\ code # ESCAPE_KEY
   /\ from_code(code) # <<>>
   /\ app.keys_current \ {from_code(code)[1]} = {}
   /\ app.keys_seen # {}
   /\ LET taken == [app EXCEPT !.keys_current = {}, !.keys_seen = {}]
          ran == run_keys([steno EXCEPT !.rerun = 0, !.empty_pops = 0,
                                        !.evicted = 0, !.pushed = 0],
                          app.keys_seen, 0)
      IN Deliver(code, app.keys_seen, taken, ran,
                 run_output(taken, surface, ran.output_in_progress))

\* Two key codes of the key S, a key code of T, the escape key and a key
\* code that is no steno key
InputCodes == {ESCAPE_KEY, 16, 30, 17, 50}

NextInput ==
   \E code \in InputCodes :
      \/ KeyPressed(code)
      \/ KeyReleasedQuietly(code)
      \/ KeyReleasedChord(code)

SpecInput == InitInput /\ [][NextInput]_vars

\* The bytes of the characters of the surface texts: a one-byte character
\* and two two-byte characters that begin with the same byte
SurfaceChars == {<<"a">>, <<"\\xC3", "\\x80">>, <<"\\xC3", "\\x81">>}

\* The texts of at most n characters
RECURSIVE Texts(_)
Texts(n) ==
   IF n = 0 THEN {<<>>}
   ELSE Texts(n - 1) \cup {text \o char : text \in Texts(n - 1), char \in SurfaceChars}

\* The last n bytes of the text
LastBytes(text, n) == SubSeq(text, Max(Len(text) - n, 0) + 1, Len(text))

\* The Outputs the engine can hand over for a surface: the deletion counts
\* whole characters the surface ends with, or one character more than the
\* surface holds
OutputsFor(text) ==
   {[delete_words |-> words, delete |-> for_str(deleted), append |-> append] :
      words \in {0, 1},
      deleted \in {LastBytes(text, n) : n \in {m \in 0..Len(text) :
                                               is_char_boundary(text, Len(text) - m)}}
                  \cup {<<"a">> \o text},
      append \in Texts(MaxChars)}

\* A frontend whose surface holds a text and whose buffer holds its last bytes
InitDiff ==
   /\ steno \in StenoNew
   /\ steno.backlog.capacity = BACKLOG_DEPTH
   /\ surface \in Texts(MaxChars)
   /\ calls = 0
   /\ log = <<>>
   /\ seen = [command_free |-> TRUE, flushes |-> 0, empty_pops |-> 0,
              evicted |-> 0, silent |-> 0, other_commands |-> FALSE]
   /\ batch = steno
   /\ \E queue \in BoundedQueueNew(MaxBuffer) :
         \E n \in 0..queue.capacity :
            app = AppNew([queue EXCEPT !.inner = LastBytes(surface, n)])
   /\ io = IoNew
   /\ ortho = NoRules

\* One call of App::run_output with an Output of the engine
RunOutput(output) ==
   /\ calls < 1
   /\ calls' = calls + 1
   /\ app' = run_output(app, surface, output).app
   /\ surface' = run_output(app, surface, output).surface
   /\ io' = [io EXCEPT !.given = <<output>>,
                       !.sent = <<use_buffer(output, app.buffer).output>>,
                       !.before = surface,
                       !.buffer_before = app.buffer]
   /\ UNCHANGED <<steno, log, seen, batch, ortho>>

NextDiff == \E output \in OutputsFor(surface) : RunOutput(output)

SpecDiff == InitDiff /\ [][NextDiff]_vars

Init ==
   /\ steno \in StenoNew
   /\ surface = <<>>
   /\ calls = 0
   /\ log = <<>>
   /\ seen = [command_free |-> TRUE, flushes |-> 0, empty_pops |-> 0,
              evicted |-> 0, silent |-> 0, other_commands |-> FALSE]
   /\ batch = steno
   /\ app = AppNew(NoBuffer)
   /\ io = IoNew
   /\ ortho = NoRules

\* The action is the Backspace command alone
IsUndo(action) ==
   action.entry = <<Backspace>> /\ action.removed_suffix = <<>>

\* One call of Steno::run_keys by the caller, at most limit calls being made
RunKeysOn(keys, limit) ==
   /\ steno.res = "ok"
   /\ calls < limit
   /\ steno' = run_keys([steno EXCEPT !.rerun = 0, !.empty_pops = 0,
                                      !.evicted = 0, !.pushed = 0], keys, 0)
   /\ calls' = calls + 1
   /\ log' = (IF Len(log) < 2 THEN log ELSE Tail(log))
             \o <<[Call(keys) EXCEPT !.pushed = steno'.pushed]>>
   /\ seen' = [seen EXCEPT
                 !.command_free = @ /\ CommandFree(find_action(steno, keys)),
                 !.empty_pops = @ + steno'.empty_pops,
                 !.evicted = @ + steno'.evicted,
                 !.silent = IF /\ steno'.pushed = 0
                               /\ ~IsUndo(find_action(steno, keys))
                            THEN @ + 1 ELSE @,
                 !.other_commands =
                    \/ @
                    \/ /\ ~CommandFree(find_action(steno, keys))
                       /\ ~IsUndo(find_action(steno, keys))]
   /\ UNCHANGED <<surface, app, io, ortho>>

RunKeys(keys, limit) == RunKeysOn(keys, limit) /\ UNCHANGED batch

\* The same chord given to both callers' engines; the second engine is
\* called as long as no call of it has failed
RunKeysBoth(keys, limit) ==
   /\ RunKeysOn(keys, limit)
   /\ batch' = IF batch.res = "ok"
               THEN run_keys([batch EXCEPT !.rerun = 0, !.empty_pops = 0,
                                           !.evicted = 0, !.pushed = 0], keys, 0)
               ELSE batch

\* One call of Steno::flush, the caller applying the Output to its surface
Flush ==
   /\ steno.res = "ok"
   /\ log # <<>>
   /\ ~Last(log).flushed
   /\ surface' = apply_to_buffer(steno.output_in_progress, surface)
   /\ steno' = flush(steno)
   /\ log' = [log EXCEPT ![Len(log)].flushed = TRUE]
   /\ seen' = [seen EXCEPT !.flushes = @ + 1]
   /\ UNCHANGED <<calls, batch, app, io, ortho>>

\* Words, suffixes, a two-stroke suffix, a text-less entry and undo
Chords == {cT, cD, cW, cKPA, cSTAR}

Next ==
   \/ \E keys \in Chords : RunKeys(keys, MaxCalls)
   \/ Flush

Spec == Init /\ [][Next]_vars

\* Long sessions of one word and undo, which fill the backlog
ChordsLong == {cT, cSTAR}

NextLong ==
   \/ \E keys \in ChordsLong : RunKeys(keys, MaxLongCalls)
   \/ Flush

SpecLong == Init /\ [][NextLong]_vars

\* A word of ASCII letters, a word of three two-byte characters, the
\* suffixes and the undo chord, given to a caller that flushes at the end
ChordsBytes == {cH, cE, cD, cW, cSTAR}

NextBytes ==
   \/ \E keys \in ChordsBytes : RunKeys(keys, MaxLongCalls - 1)
   \/ calls >= MaxLongCalls - 1 /\ Flush

SpecBytes == Init /\ [][NextBytes]_vars

RuleLetters == {"t", "e", "i", "y", "s", "h", "g"}

\* The words of at most n letters
RECURSIVE Words(_)
Words(n) ==
   IF n = 0 THEN {<<>>}
   ELSE Words(n - 1)
        \cup {word \o <<letter>> : word \in Words(n - 1), letter \in RuleLetters}

\* Suffix texts: heads of rules, a text that is the head of none, and none
RuleSuffixes ==
   {<<>>, <<"s">>, <<"e", "d">>, <<"i", "n", "g">>, <<"e", "n">>, <<"e">>,
    <<"i">>, <<"c", "y">>, <<"i", "s", "t">>, <<"e", "r">>, <<"l", "y">>}

\* A word and a suffix text are chosen for apply_orthography_rules
InitRules ==
   /\ steno \in StenoNew
   /\ surface = <<>>
   /\ calls = 0
   /\ log = <<>>
   /\ seen = [command_free |-> TRUE, flushes |-> 0, empty_pops |-> 0,
              evicted |-> 0, silent |-> 0, other_commands |-> FALSE]
   /\ batch = steno
   /\ app = AppNew(NoBuffer)
   /\ io = IoNew
   /\ ortho \in {[first |-> first, second |-> second, results |-> <<>>] :
                    first \in Words(MaxWord), second \in RuleSuffixes}

\* One call of apply_orthography_rules with the word and the suffix text
ApplyRules ==
   /\ Len(ortho.results) < 2
   /\ ortho' = [ortho EXCEPT
                   !.results = @ \o <<apply_orthography_rules(ortho.first,
                                                              ortho.second)>>]
   /\ UNCHANGED <<steno, surface, calls, log, seen, batch, app, io>>

\* The function is called before and after the engine has run a word
NextRules ==
   \/ ApplyRules
   \/ steno.backlog.capacity = BACKLOG_DEPTH /\ RunKeys(cT, 1)

SpecRules == InitRules /\ [][NextRules]_vars

\* A word, the suffixes, the two-stroke suffix and undo, given to a caller
\* that flushes after every call
ChordsSurface == {cT, cD, cW, cSTAR}

NextSurface ==
   \/ \E keys \in ChordsSurface :
         /\ ~(log # <<>> /\ ~Last(log).flushed)
         /\ RunKeys(keys, MaxLongCalls)
   \/ Flush

SpecSurface == Init /\ [][NextSurface]_vars

\* A word, an entry that undoes and then writes, the second stroke of a
\* two-stroke key that begins with it, and undo, given to a caller that
\* flushes at the end
ChordsUndo == {cT, cU, cB, cSTAR}

NextUndo ==
   \/ \E keys \in ChordsUndo : RunKeys(keys, MaxLongCalls - 1)
   \/ calls >= MaxLongCalls - 1 /\ Flush

SpecUndo == Init /\ [][NextUndo]_vars

\* Entries that hold commands, alone, after text, before text, behind a
\* second stroke and with a suffix split off the chord
ChordsCommands == {cT, cA, cR, cQ, cSTAR, cF, cB, cRD}

NextCommands ==
   \/ \E keys \in ChordsCommands : RunKeys(keys, MaxCalls)
   \/ Flush

SpecCommands == Init /\ [][NextCommands]_vars

\* Words whose strokes are also the parts of two-stroke entries, a word whose
\* chord can be split, a chord the dictionary does not hold, and undo
ChordsLookup == {cH, cO, cHG, cWG, cSTAR}

NextLookup ==
   \/ \E keys \in ChordsLookup : RunKeys(keys, MaxCalls)
   \/ Flush

SpecLookup == Init /\ [][NextLookup]_vars

\* Words that a three-stroke entry consumes again, and a suffix whose event
\* a two-stroke suffix consumes
ChordsPops == {cH, cHG, cO, cD, cW}

NextPops ==
   \/ \E keys \in ChordsPops : RunKeys(keys, MaxCalls)
   \/ Flush

SpecPops == Init /\ [][NextPops]_vars

\* Words, a chord that is no key, a suffix alone and split off a word, the
\* entries that set caps, space, carry_to_next and glue, and a sentence end;
\* the caller flushes before the last call or after it
ChordsParts == {cH, cHG, cW, cD, cHD, cLOW, cKPA, cNOSP, cCARRY, cX, cP}

NextParts ==
   \/ \E keys \in ChordsParts : RunKeys(keys, MaxPartCalls)
   \/ calls >= MaxPartCalls - 1 /\ Flush

SpecParts == Init /\ [][NextParts]_vars

\* The six punctuation marks after a word and the entries that clear space
\* and set carry_to_next
ChordsPunct == {cP, cCOMMA, cCOLON, cSEMI, cBANG, cQUERY, cH, cNOSP, cCARRY}

NextPunct ==
   \/ \E keys \in ChordsPunct : RunKeys(keys, MaxPartCalls)
   \/ calls >= MaxPartCalls - 1 /\ Flush

SpecPunct == Init /\ [][NextPunct]_vars

\* Long sessions given to a caller that flushes after every call and to a
\* caller that flushes once at the end
NextBatch ==
   \/ \E keys \in ChordsLong : RunKeysBoth(keys, MaxLongCalls)
   \/ Flush

SpecBatch == Init /\ [][NextBatch]_vars

\* Glue, a sentence end, a word, a suffix and undo
ChordsGlue == {cX, cP, cT, cD, cSTAR}

NextGlue ==
   \/ \E keys \in ChordsGlue : RunKeys(keys, MaxCalls)
   \/ Flush

SpecGlue == Init /\ [][NextGlue]_vars

\* Every chord of the number bar, at least one digit key and, of the other
\* keys, only E with U, D and Z
NumberChords ==
   {keys \in SUBSET ({"#", "E", "U", "D", "Z"}
                     \cup {NUMBERS[i][1] : i \in 1..Len(NUMBERS)}) :
      /\ "#" \in keys
      /\ \E i \in 1..Len(NUMBERS) : NUMBERS[i][1] \in keys
      /\ "E" \in keys <=> "U" \in keys}

\* One number chord given to a fresh engine
NextNumbers ==
   \/ \E keys \in NumberChords : RunKeys(keys, 1)
   \/ Flush

SpecNumbers == Init /\ [][NextNumbers]_vars

\* Chords of the number bar with a key that is no number key: alone a key
\* of the dictionary (#W), the last stroke of one (T, #R), with a digit
\* (#SW) and with a suffix key (#WD); a number and a word
ChordsBar == {cNW, cNR, cNSW, cNWD, cNS, cT}

NextBar ==
   \/ \E keys \in ChordsBar : RunKeys(keys, MaxPartCalls)
   \/ calls >= MaxPartCalls - 1 /\ Flush

SpecBar == Init /\ [][NextBar]_vars

\* Numbers that are all digits (#S, and #ST, which is a key of the
\* dictionary too) and one that is not (#SK), a word, a sentence end, a
\* glued letter, the entry that clears space and the undo chord
ChordsDigits == {cNS, cNST, cNSK, cT, cP, cX, cNOSP, cSTAR}

NextDigits ==
   \/ \E keys \in ChordsDigits : RunKeys(keys, MaxPartCalls)
   \/ calls >= MaxPartCalls - 1 /\ Flush

SpecDigits == Init /\ [][NextDigits]_vars

\* Every chord of the number bar, at least one of the digit keys S, T and O
\* and, of the other keys, only E with U, D, Z, K, B and G
ClockChords ==
   {keys \in SUBSET {"#", "S", "T", "O", "E", "U", "D", "Z", "K", "B", "G"} :
      /\ "#" \in keys
      /\ keys \cap {"S", "T", "O"} # {}
      /\ "E" \in keys <=> "U" \in keys}

\* One such chord given to a fresh engine
NextClock ==
   \/ \E keys \in ClockChords : RunKeys(keys, 1)
   \/ Flush

SpecClock == Init /\ [][NextClock]_vars

\* The chords of at most n keys
RECURSIVE ChordsUpTo(_)
ChordsUpTo(n) ==
   IF n = 0 THEN {{}}
   ELSE LET smaller == ChordsUpTo(n - 1)
        IN smaller \cup {chord \cup {KeyOrder[i]} :
                            chord \in smaller, i \in 1..Len(KeyOrder)}

\* The keys that share their character with another key
DoubledKeys == {"S", "T", "P", "R", "R2", "P2", "T2", "S2"}

\* Every chord of few keys and every chord of the doubled keys
ChordsKeys == ChordsUpTo(MaxKeys) \cup SUBSET DoubledKeys

\* One chord given to a fresh engine
NextKeys ==
   \/ \E keys \in ChordsKeys : RunKeys(keys, 1)
   \/ Flush

SpecKeys == Init /\ [][NextKeys]_vars

TypeOK ==
   /\ steno.res \in {"ok", "quit", "assert_start", "assert_backspace",
                     "assert_delete_words", "nest"}
   /\ calls \in 0..MaxLongCalls
   /\ Len(log) <= 2

----------------------------------------------------------------------------
(* Properties.                                                             *)

\* The call resolved to the entry that is the Backspace command alone
UndoChord(call) == IsUndo(call.action)

EndsWith(text, tail) == StripSuffix(text, tail) # <<>>

\* The last two calls were a command-free chord C with delete_before = 0 and
\* the undo chord, each followed by a flush
ChordThenUndo ==
   /\ Len(log) = 2
   /\ steno.res = "ok"
   /\ CommandFree(log[1].action)
   /\ log[1].action.delete_before = 0
   /\ log[1].flushed
   /\ UndoChord(log[2])
   /\ log[2].flushed

C2_UndoRetranslatesPrefix ==
   (/\ Len(log) = 2
    /\ steno.res = "ok"
    /\ log[2].clean
    /\ UndoChord(log[2])
    /\ seen.evicted = 0)
   => (/\ Pending(steno, surface) = log[1].text
       /\ steno.state = log[1].state
       /\ steno.backlog.inner = log[1].backlog)

\* C3: the engine never asks to delete text it did not append.  From a fresh
\* engine, with no flush so far and no Backspace run against an empty
\* backlog, the pending Output deletes nothing.
C3_NeverDeletesForeignText ==
   (steno.res = "ok" /\ seen.flushes = 0 /\ seen.empty_pops = 0)
   => (/\ steno.output_in_progress.delete.bytes = 0
       /\ steno.output_in_progress.delete_words = 0)

\* C4: popping an event whose replaced_previous flag is set deletes its text
\* and re-appends the text of the now-last backlog event, whatever the
\* number of strokes of the popped event, so that the surface ends with the
\* previous event's text.
C4_PopReappendsPrevious ==
   (/\ steno.res = "ok"
    /\ Len(steno.backlog.inner) >= 2
    /\ Last(steno.backlog.inner).replaced_previous)
   => LET popped == delete_full_entry(steno)
      IN /\ popped.s.backlog.inner = Front(steno.backlog.inner)
         /\ EndsWith(Pending(popped.s, surface),
                     Last(popped.s.backlog.inner).text)

\* Replaying strokes through run_keys on an engine
RECURSIVE RunAll(_, _)
RunAll(s, strokes) ==
   IF strokes = <<>> \/ s.res # "ok" THEN s
   ELSE RunAll(run_keys(s, strokes[1], 0), Tail(strokes))

\* The InputState reached by replaying the strokes of the backlog events
\* before the k-th on a fresh engine
ReplayState(k) ==
   LET fresh == CHOOSE s \in StenoNew :
                   s.backlog.capacity = steno.backlog.capacity
   IN RunAll(fresh, FlatStrokes(SubSeq(steno.backlog.inner, 1, k - 1))).state

ReplayReproducesStateBefore ==
   \A k \in 1..Len(steno.backlog.inner) :
      ReplayState(k) = steno.backlog.inner[k].state_before

\* C5 as stated: in every reachable state, replaying the strokes of the
\* backlog events before the k-th from the initial InputState ends in the
\* state_before of the k-th event.
C5_ReplayAlways == ReplayReproducesStateBefore

\* C5 as amended: the replay reproduces state_before as long as every chord
\* delivered so far resolved either to the Backspace command alone or to a
\* command-free entry that pushed an event, and no event has been evicted.
C5_ReplayOfPlainSession ==
   (~seen.other_commands /\ seen.silent = 0 /\ seen.evicted = 0)
   => ReplayReproducesStateBefore

\* A session of text chords and undo has merged two strokes into one event
\* that follows another event
C5_Witness ==
   /\ ~seen.other_commands /\ seen.silent = 0 /\ seen.evicted = 0
   /\ ~seen.command_free
   /\ Len(steno.backlog.inner) = 2
   /\ Len(steno.backlog.inner[2].strokes) = 2
   /\ steno.backlog.inner[2].state_before # INITIAL

\* C6: after every run_keys call the backlog holds at most BACKLOG_DEPTH
\* events, and a push onto a full backlog evicts exactly the oldest event
\* and keeps the others in order.
C6_BacklogBounded ==
   /\ Len(steno.backlog.inner) <= BACKLOG_DEPTH
   /\ (/\ log # <<>>
       /\ steno.res = "ok"
       /\ steno.rerun = 0
       /\ steno.pushed = 1
       /\ Last(log).action.delete_before = 0
       /\ Len(Last(log).backlog) >= BACKLOG_DEPTH)
      => Front(steno.backlog.inner) = Tail(Last(log).backlog)

\* C7: every backlog event has non-empty text; an action that appends no
\* text pushes no backlog event.
C7_EventTextNonEmpty ==
   \A k \in 1..Len(steno.backlog.inner) : steno.backlog.inner[k].text # <<>>

\* A text-less entry has just run over a non-empty backlog and pushed nothing
C7_Witness ==
   /\ log # <<>>
   /\ Last(log).keys = cKPA
   /\ steno.res = "ok"
   /\ steno.pushed = 0
   /\ steno.backlog.inner # <<>>
   /\ steno.backlog.inner = Last(log).backlog

\* C8: a Backspace run with an empty backlog returns Ok, adds exactly 1 to
\* delete_words, leaves delete and append alone, re-runs no stroke and
\* leaves the InputState and the backlog unchanged.
C8_BackspaceOnEmptyBacklog ==
   (/\ log # <<>>
    /\ UndoChord(Last(log))
    /\ Last(log).backlog = <<>>
    /\ ~Last(log).flushed)
   => (/\ steno.res = "ok"
       /\ steno.output_in_progress =
             [Last(log).output EXCEPT !.delete_words = @ + 1]
       /\ steno.rerun = 0
       /\ steno.state = Last(log).state
       /\ steno.backlog.inner = <<>>)

\* C9: run_keys returns Ok or the Quit signal; no assertion is reachable,
\* whatever the dictionary holds before a Backspace in its entry.
C9_NoAssertionReachable == steno.res \in {"ok", "quit"}

\* C10: every time a word-delete is requested the append buffer is empty,
\* that is, the assertion of Output::delete_words never fails.
C10_WordDeleteFindsAppendEmpty == steno.res # "assert_delete_words"

\* C11: applying the Output of a flush after each run_keys gives the same
\* final surface text as running the whole chord sequence and applying the
\* Output of a single flush at the end, from a fresh engine and an empty
\* surface.
C11_FlushEachEqualsFlushOnce ==
   (steno.res = "ok" /\ seen.flushes = calls)
   => (/\ batch.res = "ok"
       /\ apply_to_buffer(batch.output_in_progress, <<>>) = surface)

\* The engine as it was when the call was made
EngineAt(call) ==
   [steno EXCEPT !.state = call.state,
                 !.backlog.inner = call.backlog,
                 !.output_in_progress = call.output,
                 !.backlog_entry_in_progress = <<>>,
                 !.res = "ok",
                 !.rerun = 0, !.empty_pops = 0, !.evicted = 0, !.pushed = 0]

\* The parts of an entry that precede its first Quit
BeforeQuit(parts) ==
   SubSeq(parts, 1,
          (CHOOSE i \in 1..Len(parts) :
              /\ parts[i].t = "Quit"
              /\ \A j \in 1..(i - 1) : parts[j].t # "Quit") - 1)

EndsWithReset(call) == Last(call.action.entry).t = "Reset"

ResetState ==
   /\ steno.state = INITIAL
   /\ steno.backlog.inner = <<>>
   /\ steno.backlog_entry_in_progress = <<>>
   /\ steno.output_in_progress = OutputDefault

\* C13 as stated: after an action whose entry ends with a Reset command the
\* InputState is INITIAL, the backlog is empty, the text in progress is empty
\* and the accumulated Output is empty, whatever preceded the Reset.
C13_ResetClearsAll ==
   (log # <<>> /\ steno.res = "ok" /\ EndsWithReset(Last(log)))
   => ResetState

\* C13 as amended: the same, for an action that has no removed suffix.
C13_ResetClearsAllWithoutSuffix ==
   (/\ log # <<>>
    /\ steno.res = "ok"
    /\ EndsWithReset(Last(log))
    /\ Last(log).action.removed_suffix = <<>>)
   => ResetState

\* An entry of text and Reset has consumed a backlog event while output was
\* pending
C13_Witness ==
   /\ log # <<>>
   /\ steno.res = "ok"
   /\ EndsWithReset(Last(log))
   /\ Last(log).action.removed_suffix = <<>>
   /\ Len(Last(log).action.entry) = 2
   /\ Last(log).action.delete_before = 1
   /\ Last(log).output # OutputDefault
   /\ ~Last(log).flushed

\* C14: flush hands the whole accumulated Output to the caller and leaves
\* the pending output empty, the InputState and the backlog unchanged; a
\* second flush right after it returns an empty Output.
C14_FlushMovesOutput ==
   [][(seen'.flushes = seen.flushes + 1)
      => (/\ surface' = apply_to_buffer(steno.output_in_progress, surface)
          /\ steno'.output_in_progress = OutputDefault
          /\ steno'.state = steno.state
          /\ steno'.backlog = steno.backlog
          /\ steno'.backlog_entry_in_progress = steno.backlog_entry_in_progress
          /\ flush(steno') = steno')]_vars

\* A flush has handed over an Output that deleted from the surface, the
\* engine holding events and a changed InputState
C14_Witness ==
   /\ log # <<>>
   /\ Last(log).flushed
   /\ Last(log).output = OutputDefault
   /\ Len(surface) < Len(Last(log).text)
   /\ steno.backlog.inner # <<>>
   /\ steno.state # INITIAL
   /\ steno.output_in_progress = OutputDefault

\* The events find_action looks back over
Window(backlog) ==
   SubSeq(backlog, Max(Len(backlog) - max_strokes, 0) + 1, Len(backlog))

\* The strokes of the last m events of the window followed by the chord
Candidate(backlog, m, keys) ==
   LET window == Window(backlog)
   IN FlatStrokes(SubSeq(window, Len(window) - m + 1, Len(window))) \o <<keys>>

NumberPath(call) == "#" \in call.keys /\ make_numbers(call.keys) # <<>>

ExactKey(call, m) == Candidate(call.backlog, m, call.keys) \in DOMAIN DictMap

\* The chord without its suffix keys, when the suffix keys are a key of the
\* dictionary
SplitBody(keys) ==
   IF keys \cap SuffixKeys # {} /\ <<keys \cap SuffixKeys>> \in DOMAIN DictMap
   THEN <<keys \ SuffixKeys>>
   ELSE <<>>

SplitKey(call, m) ==
   /\ SplitBody(call.keys) # <<>>
   /\ Candidate(call.backlog, m, SplitBody(call.keys)[1]) \in DOMAIN DictMap

LookupFound(call) ==
   \E m \in 0..Len(Window(call.backlog)) : ExactKey(call, m) \/ SplitKey(call, m)

\* C15: longest match wins.  When a chord not handled by the number path
\* resolves to a dictionary action with delete_before = n, the strokes of
\* the action are those of the last n backlog events followed by the chord,
\* and no longer slice of the window followed by the chord is a key of the
\* dictionary.
C15_LongestMatchWins ==
   (log # <<>> /\ ~NumberPath(Last(log)) /\ LookupFound(Last(log)))
   => LET call == Last(log)
          n == call.action.delete_before
      IN /\ n <= Len(Window(call.backlog))
         /\ call.action.strokes = Candidate(call.backlog, n, call.keys)
         /\ ExactKey(call, n) \/ SplitKey(call, n)
         /\ \A m \in (n + 1)..Len(Window(call.backlog)) : ~ExactKey(call, m)

\* A two-stroke entry has been chosen for a chord that is also a key alone
C15_Witness ==
   /\ log # <<>>
   /\ ~NumberPath(Last(log))
   /\ Last(log).action.delete_before = 1
   /\ Len(Last(log).action.strokes) = 2
   /\ ExactKey(Last(log), 0)
   /\ Len(Last(log).backlog) >= 2

\* C16: the suffix split is a fallback to the exact lookup.  find_action
\* returns an action with removed_suffix set only when no slice of the
\* window that ends in the unmodified chord, down to the chord alone, is a
\* key of the dictionary.
C16_SplitOnlyWithoutExactKey ==
   (log # <<>> /\ Last(log).action.removed_suffix # <<>>)
   => \A m \in 0..Len(Window(Last(log).backlog)) : ~ExactKey(Last(log), m)

\* C17: when the number path, every exact lookup and every suffix-split
\* lookup fail, the action is the single part Verbatim(format(C)) with the
\* strokes [C], delete_before = 0 and no removed suffix, and no backlog
\* event is consumed.
C17_FallbackIsLiteral ==
   (log # <<>> /\ ~NumberPath(Last(log)) /\ ~LookupFound(Last(log)))
   => LET call == Last(log)
      IN /\ call.action =
               Action(<<Verbatim(Format(call.keys))>>, <<call.keys>>, <<>>, 0)
         /\ (steno.res = "ok" /\ Len(call.backlog) < steno.backlog.capacity)
            => Front(steno.backlog.inner) = call.backlog

\* A chord that holds a suffix key has fallen back to its literal text over
\* a backlog of events
C17_Witness ==
   /\ log # <<>>
   /\ Last(log).keys = cWG
   /\ ~LookupFound(Last(log))
   /\ Last(log).backlog # <<>>
   /\ Last(log).pushed = 1

\* The latest call ran an entry that is one Glue part, and the call before it
\* pushed an event whose last part is of one of the kinds
GlueAfter(kinds) ==
   /\ Len(log) = 2
   /\ steno.res = "ok"
   /\ log[1].pushed = 1
   /\ Last(EntryOf(log[1].action)).t \in kinds
   /\ Len(log[2].action.entry) = 1
   /\ log[2].action.entry[1].t = "Glue"
   /\ log[2].action.removed_suffix = <<>>
   /\ log[2].pushed = 1

\* What a Verbatim part of the text emits in the state the call began in
AsVerbatim(call, text) ==
   (IF call.state.space THEN <<" ">> ELSE <<>>)
   \o (IF call.state.caps
       THEN <<ByteUpper(text[1])>> \o Tail(text)
       ELSE text)

\* C18: Glue concatenates only with adjacent Glue.  A Glue part run right
\* after a call whose last emission was a Glue is appended as it is; run
\* right after a call whose last emission was a Verbatim, a Suffix or a
\* SpecialPunct it is emitted as a Verbatim is: after a space when space is
\* set, and with its first letter in upper case when caps is set.
C18_GlueJoinsOnlyGlue ==
   /\ GlueAfter({"Glue"})
      => Last(steno.backlog.inner).text = log[2].action.entry[1].text
   /\ GlueAfter({"Verbatim", "Suffix", "SpecialPunct"})
      => Last(steno.backlog.inner).text
            = AsVerbatim(log[2], log[2].action.entry[1].text)

\* The digit keys in the order the claim gives them, and the digit of each
DigitKeyOrder == <<"S", "T", "P", "H", "A", "O", "F", "P2", "L", "T2">>

DigitOf(key) ==
   CASE key = "S" -> "1" [] key = "T" -> "2" [] key = "P" -> "3"
     [] key = "H" -> "4" [] key = "A" -> "5" [] key = "O" -> "0"
     [] key = "F" -> "6" [] key = "P2" -> "7" [] key = "L" -> "8"
     [] key = "T2" -> "9"

\* The digits of the pressed keys, in the order of the keys or backwards
RECURSIVE PressedDigits(_, _, _)
PressedDigits(keys, i, backwards) ==
   IF i > Len(DigitKeyOrder) THEN <<>>
   ELSE LET here == IF DigitKeyOrder[i] \in keys
                    THEN <<DigitOf(DigitKeyOrder[i])>> ELSE <<>>
            rest == PressedDigits(keys, i + 1, backwards)
        IN IF backwards THEN rest \o here ELSE here \o rest

ExpectedNumber(keys) ==
   LET digits == PressedDigits(keys, 1, {"E", "U"} \subseteq keys)
   IN IF {"D", "Z"} \subseteq keys THEN <<"$">> \o digits \o <<"0", "0">>
      ELSE IF "D" \in keys THEN digits \o digits
      ELSE IF "Z" \in keys THEN digits \o <<"0", "0">>
      ELSE digits

\* The chord is one the claim speaks of
NumberChord(keys) ==
   /\ "#" \in keys
   /\ keys \cap {DigitKeyOrder[i] : i \in 1..Len(DigitKeyOrder)} # {}
   /\ keys \ ({"#"} \cup {DigitKeyOrder[i] : i \in 1..Len(DigitKeyOrder)})
         \in {{}, {"E", "U"}, {"D"}, {"Z"}, {"D", "Z"}, {"E", "U", "D"},
              {"E", "U", "Z"}, {"E", "U", "D", "Z"}}

\* C19: for every chord of the number bar, at least one digit key and
\* otherwise only E with U, D and Z, make_numbers returns the digits of the
\* pressed keys in the order S,T,P,H,A,O,F,P2,L,T2 as 1,2,3,4,5,0,6,7,8,9,
\* reversed when E and U are present, then with '$' before and '00' after
\* when D and Z are present, else doubled when D is, else with '00' after
\* when Z is; and the action found for the chord holds that text.
C19_NumbersOfChord ==
   (log # <<>> /\ NumberChord(Last(log).keys))
   => /\ make_numbers(Last(log).keys) = <<ExpectedNumber(Last(log).keys)>>
      /\ Len(Last(log).action.entry) = 1
      /\ Last(log).action.entry[1].text = ExpectedNumber(Last(log).keys)

\* A chord of several digits with E, U, D and Z has been run
C19_Witness ==
   /\ log # <<>>
   /\ Last(log).keys = {"#", "S", "T", "O", "E", "U", "D", "Z"}
   /\ Last(log).action.entry[1].text = <<"$", "0", "2", "1", "0", "0">>
   /\ Last(log).pushed = 1
   /\ steno.res = "ok"

Dashes(text) == Cardinality({i \in 1..Len(text) : text[i] = "-"})

\* C20: parsing then formatting round-trips.  For every chord, parsing the
\* text that formatting the chord gives succeeds and yields the chord, and
\* the text holds at most one '-'.
C20_ParseOfFormat ==
   log # <<>>
   => /\ from_str(Format(Last(log).keys)) = <<Last(log).keys>>
      /\ Dashes(Format(Last(log).keys)) <= 1

\* A chord of a first key and two second keys, whose text holds a dash, has
\* been run and has become its literal text
C20_Witness ==
   /\ log # <<>>
   /\ Last(log).keys = {"S", "T2", "S2"}
   /\ Format(Last(log).keys) = <<"S", "-", "T", "S">>
   /\ Last(log).action.entry = <<Verbatim(<<"S", "-", "T", "S">>)>>
   /\ from_str(<<"S", "-", "T", "S">>) = <<{"S", "T2", "S2"}>>
   /\ from_str(<<"S", "T", "S">>) = <<{"S", "T", "S2"}>>

\* C22: diffing against the surface buffer is a pure optimization.  For a
\* buffer that holds the last bytes of the surface and an Output, applying
\* the Output that diff_with_buffer leaves gives the same surface text as
\* applying the original; the diff only lowers delete and removes from the
\* front of append a prefix of as many bytes, cut at a character boundary;
\* and it changes nothing when delete_words is not 0 or delete.bytes is more
\* than the buffer holds.
C22_DiffIsOptimization ==
   io.given # <<>>
   => LET given == io.given[1]
          sent == io.sent[1]
          cut == Len(given.append) - Len(sent.append)
      IN /\ apply_to_buffer(sent, io.before) = apply_to_buffer(given, io.before)
         /\ io.buffer_before.inner
               = LastBytes(io.before, Len(io.buffer_before.inner))
         /\ sent.delete_words = given.delete_words
         /\ cut \in 0..Len(given.append)
         /\ sent.append = SubSeq(given.append, cut + 1, Len(given.append))
         /\ sent.delete.bytes = given.delete.bytes - cut
         /\ sent.delete.bytes >= 0
         /\ sent.delete.chars
               = given.delete.chars - CharCount(SubSeq(given.append, 1, cut))
         /\ sent.delete.chars >= 0
         /\ cut = Len(given.append)
            \/ given.append[cut + 1] \notin ContinuationBytes
         /\ (given.delete_words # 0
             \/ given.delete.bytes > Len(io.buffer_before.inner))
            => sent = given

\* An Output has been cut after its first character, before a character that
\* shares its first byte with the character the buffer holds there
C22_Witness ==
   /\ io.given # <<>>
   /\ io.before = <<"a", "\\xC3", "\\x80">>
   /\ io.buffer_before.inner = io.before
   /\ io.given[1].delete_words = 0
   /\ io.given[1].delete = [chars |-> 2, bytes |-> 3]
   /\ io.given[1].append = <<"a", "\\xC3", "\\x81">>
   /\ io.sent[1].delete = [chars |-> 1, bytes |-> 2]
   /\ io.sent[1].append = <<"\\xC3", "\\x81">>
   /\ surface = io.given[1].append

\* The key codes among the codes that are codes of steno keys
Mapped(codes) == {code \in codes : from_code(code) # <<>>}

\* C21: in the input-method frontend a chord is delivered to the engine at
\* the moment the last physically held steno key is released, and it is the
\* set of all keys pressed since the previous delivery: when a chord is
\* delivered no mapped key code is still held down, also when two key codes
\* map to the same steno key; and at no time is every mapped key code up
\* while keys pressed since the last delivery wait to be delivered.
C21_ChordAtLastRelease ==
   /\ io.deliveries > 0
      => /\ io.chord = <<io.chord_pressed>>
         /\ Mapped(io.chord_held) = {}
   /\ (Mapped(io.held) = {} /\ Dispatching) => io.pressed = {}

\* The call that gives the chord to the engine as it is now
CallNow(keys) == [keys |-> keys, backlog |-> steno.backlog.inner]

\* C23: every action that find_action returns consumes at most
\* max_strokes - 1 trailing backlog events, and when its entry comes from
\* the dictionary its strokes are at most max_strokes.
C23_ConsumesBelowMaxStrokes ==
   \A keys \in ChordsLookup :
      LET action == find_action(steno, keys)
      IN /\ action.delete_before <= max_strokes - 1
         /\ action.delete_before <= Len(steno.backlog.inner)
         /\ (~NumberPath(CallNow(keys)) /\ LookupFound(CallNow(keys)))
            => Len(action.strokes) <= max_strokes

\* A chord has consumed max_strokes - 1 events of a backlog that held
\* max_strokes events, for an entry of max_strokes strokes
C23_Witness ==
   /\ log # <<>>
   /\ Len(Last(log).backlog) >= max_strokes
   /\ Last(log).action.delete_before = max_strokes - 1
   /\ Last(log).action.delete_before >= 1
   /\ Len(Last(log).action.strokes) = max_strokes
   /\ LookupFound(Last(log))

\* The engines met while the last n events are popped, the first being s
RECURSIVE PopSteps(_, _)
PopSteps(s, n) ==
   IF n = 0 THEN <<s>>
   ELSE <<s>> \o PopSteps(delete_full_entry(s).s, n - 1)

\* The latest call consumed events of the backlog and succeeded
Consumed ==
   /\ log # <<>>
   /\ Last(log).action.delete_before >= 1
   /\ steno.res = "ok"

\* C24: when an action consumes n >= 1 trailing backlog events, the events
\* are popped newest first and the text of each is deleted from the output
\* as it is popped; the parts of the entry then run from the state_before
\* of the oldest consumed event, and the event that the action pushes has
\* that state as its state_before.
C24_ConsumedEventsUndone ==
   Consumed
   => LET call == Last(log)
          n == call.action.delete_before
          len == Len(call.backlog)
          steps == PopSteps(EngineAt(call), n)
          oldest == call.backlog[len - n + 1]
          start == [EngineAt(call) EXCEPT
                      !.backlog.inner = SubSeq(call.backlog, 1, len - n),
                      !.state = oldest.state_before,
                      !.output_in_progress = steps[n + 1].output_in_progress]
          ran == RunParts(start, EntryOf(call.action), 1, FALSE, 0)
          end == PushEvent(ran.s, call.action.strokes, ran.replaced_previous,
                           oldest.state_before)
      IN /\ n <= len
         /\ \A j \in 1..n :
               /\ steps[j + 1].backlog.inner = SubSeq(call.backlog, 1, len - j)
               /\ \E again \in {<<>>} \cup {call.backlog[i].text : i \in 1..len} :
                     steps[j + 1].output_in_progress
                        = OutputAppend(
                             OutputDelete(steps[j].output_in_progress,
                                          for_str(call.backlog[len - j + 1].text)),
                             again)
         /\ steno.state = end.state
         /\ steno.backlog.inner = end.backlog.inner
         /\ call.flushed \/ steno.output_in_progress = end.output_in_progress
         /\ call.pushed = 1
            => Last(steno.backlog.inner).state_before = oldest.state_before

\* Two events whose state_before differ have been consumed by one action
C24_Witness ==
   /\ Consumed
   /\ Last(log).action.delete_before = 2
   /\ Last(log).backlog[Len(Last(log).backlog)].state_before
         # Last(log).backlog[Len(Last(log).backlog) - 1].state_before
   /\ Last(steno.backlog.inner).state_before
         = Last(log).backlog[Len(Last(log).backlog) - 1].state_before
   /\ Len(Last(steno.backlog.inner).strokes) = 3

\* The latest call ran an entry that is one Suffix part, with no text in
\* progress and over a backlog that held events, and has pushed its event
SuffixOverBacklog ==
   /\ log # <<>>
   /\ steno.res = "ok"
   /\ Last(log).action.entry = <<Suffix(Last(log).action.entry[1].text)>>
   /\ Last(log).action.removed_suffix = <<>>
   /\ Len(Last(log).backlog) > Last(log).action.delete_before
   /\ Last(log).pushed = 1

\* C25: when a Suffix part runs with no text in progress and a non-empty
\* backlog, the last event of the backlog is popped, and the event pushed at
\* the end of the action has replaced_previous = true, the state_before of
\* the popped event and the strokes of the popped event followed by those of
\* the action; the backlog does not grow.
C25_SuffixMergesPreviousEvent ==
   SuffixOverBacklog
   => LET call == Last(log)
          left == SubSeq(call.backlog, 1,
                         Len(call.backlog) - call.action.delete_before)
          popped == Last(left)
          event == Last(steno.backlog.inner)
      IN /\ event.replaced_previous
         /\ event.state_before = popped.state_before
         /\ event.strokes = popped.strokes \o call.action.strokes
         /\ steno.backlog.inner = Front(left) \o <<event>>
         /\ Len(steno.backlog.inner) <= Len(call.backlog)

\* text as append_capsed appends it
Capsed(text, caps) ==
   IF caps /\ text # <<>> THEN <<ByteUpper(text[1])>> \o Tail(text) ELSE text

\* The latest call succeeded with an entry whose last part is a Suffix
SuffixLast ==
   /\ log # <<>>
   /\ steno.res = "ok"
   /\ EntryOf(Last(log).action) # <<>>
   /\ Last(EntryOf(Last(log).action)).t = "Suffix"

\* The engine that the Suffix part of the latest call started from
SuffixStart ==
   LET call == Last(log)
   IN RunParts(DeleteBefore(EngineAt(call), call.action.delete_before),
               Front(EntryOf(call.action)), 1, FALSE, 0).s

\* The previous text of the Suffix part of the latest call, as an Option
SuffixPrevious ==
   IF SuffixStart.backlog_entry_in_progress # <<>>
   THEN <<SuffixStart.backlog_entry_in_progress>>
   ELSE IF SuffixStart.backlog.inner # <<>>
   THEN <<Last(SuffixStart.backlog.inner).text>>
   ELSE <<>>

\* What the claim says is emitted for previous text p and suffix s
SuffixFused(p, s) ==
   IF Trim(make_ascii_lowercase(p \o s)) \in WordListSet THEN p \o s
   ELSE IF apply_orthography_rules(p, s) # <<>>
   THEN apply_orthography_rules(p, s)[1]
   ELSE p \o s

\* C26: a Suffix part with previous text p and suffix s removes p from the
\* output once and then emits, with no leading space and its first
\* character upper-cased when caps is set: p followed by s when the
\* lowercased, trimmed p+s is in the word list; otherwise the fused string
\* of the first orthography rule that matches (p, s); otherwise p followed
\* by s.
C26_SuffixThreeWays ==
   (SuffixLast /\ SuffixPrevious # <<>>)
   => LET call == Last(log)
          p == SuffixPrevious[1]
          s == Last(EntryOf(call.action)).text
          emitted == Capsed(SuffixFused(p, s), SuffixStart.state.caps)
      IN /\ call.flushed
            \/ steno.output_in_progress
                  = OutputAppend(OutputDelete(SuffixStart.output_in_progress,
                                              for_str(p)),
                                 emitted)
         /\ steno.backlog.inner # <<>>
         /\ Last(steno.backlog.inner).text = emitted
         /\ steno.backlog_entry_in_progress = <<>>

\* A rule has fused the text of the last backlog event with a suffix, and
\* the fused text differs from the two texts put end to end
C26_Witness ==
   /\ SuffixLast /\ SuffixPrevious # <<>>
   /\ SuffixStart.backlog_entry_in_progress = <<>>
   /\ ~Last(log).flushed
   /\ apply_orthography_rules(SuffixPrevious[1],
                              Last(EntryOf(Last(log).action)).text) # <<>>
   /\ Last(steno.backlog.inner).text
         # SuffixPrevious[1] \o Last(EntryOf(Last(log).action)).text
   /\ steno.output_in_progress.append = Last(steno.backlog.inner).text

\* C27: a Suffix part that finds no text in progress and an empty backlog
\* emits its text with no leading space, whatever space was, the first
\* character upper-cased iff caps is set; the event pushed has
\* replaced_previous false; afterwards caps is false and space is true,
\* unless carry_to_next was set, which is then cleared with caps left as
\* it was and space left false.
C27_SuffixWithoutPrevious ==
   (SuffixLast /\ SuffixPrevious = <<>>)
   => LET call == Last(log)
          before == SuffixStart.state
          emitted == Capsed(Last(EntryOf(call.action)).text, before.caps)
          event == Last(steno.backlog.inner)
      IN /\ call.flushed
            \/ steno.output_in_progress
                  = OutputAppend(SuffixStart.output_in_progress, emitted)
         /\ steno.backlog.inner = <<event>>
         /\ event.text = emitted
         /\ ~event.replaced_previous
         /\ steno.state
               = IF before.carry_to_next
                 THEN [caps |-> before.caps, space |-> FALSE,
                       carry_to_next |-> FALSE, glue |-> FALSE]
                 ELSE [caps |-> FALSE, space |-> TRUE,
                       carry_to_next |-> FALSE, glue |-> FALSE]

\* A suffix alone has been upper-cased and emitted with carry_to_next set,
\* and caps is still set
C27_Witness ==
   /\ SuffixLast /\ SuffixPrevious = <<>>
   /\ SuffixStart.state.caps /\ SuffixStart.state.carry_to_next
   /\ ~Last(log).flushed
   /\ steno.output_in_progress.append = <<"E", "d">>
   /\ steno.state.caps /\ ~steno.state.space /\ ~steno.state.carry_to_next

\* The latest call succeeded with an entry that is one Verbatim part
VerbatimAlone ==
   /\ log # <<>>
   /\ steno.res = "ok"
   /\ Len(EntryOf(Last(log).action)) = 1
   /\ EntryOf(Last(log).action)[1].t = "Verbatim"

\* The engine that the parts of the latest call started from
PartsStart ==
   DeleteBefore(EngineAt(Last(log)), Last(log).action.delete_before)

\* C28: Verbatim(t), in any state, sets glue to false, appends one space
\* iff space is set and then t with its first character upper-cased iff
\* caps is set; the output and the text in progress (which becomes the text
\* of the event pushed) receive the same text; when carry_to_next was clear,
\* caps is false and space is true afterwards.
C28_VerbatimSemantics ==
   VerbatimAlone
   => LET call == Last(log)
          before == PartsStart.state
          t == EntryOf(call.action)[1].text
          emitted == (IF before.space THEN <<" ">> ELSE <<>>)
                     \o Capsed(t, before.caps)
      IN /\ ~steno.state.glue
         /\ call.flushed
            \/ steno.output_in_progress
                  = OutputAppend(PartsStart.output_in_progress, emitted)
         /\ steno.backlog.inner # <<>>
         /\ Last(steno.backlog.inner).text = emitted
         /\ ~before.carry_to_next
            => ~steno.state.caps /\ steno.state.space

\* A word has been emitted after a space and in upper case, in a state in
\* which glue was set
C28_Witness ==
   /\ VerbatimAlone
   /\ PartsStart.state
         = [caps |-> TRUE, space |-> TRUE, carry_to_next |-> FALSE, glue |-> TRUE]
   /\ ~Last(log).flushed
   /\ Last(steno.backlog.inner).text = <<" ", "H", "e">>
   /\ steno.state
         = [caps |-> FALSE, space |-> TRUE, carry_to_next |-> FALSE, glue |-> FALSE]

\* The latest call succeeded with an entry that is one part of the kind
PartAlone(kind) ==
   /\ log # <<>>
   /\ steno.res = "ok"
   /\ Len(EntryOf(Last(log).action)) = 1
   /\ EntryOf(Last(log).action)[1].t = kind

\* The last two calls each ran one Verbatim part and consumed no event, and
\* the first of them began with carry_to_next set
TwoVerbatimsAfterCarry ==
   /\ Len(log) = 2
   /\ VerbatimAlone
   /\ Len(EntryOf(log[1].action)) = 1
   /\ EntryOf(log[1].action)[1].t = "Verbatim"
   /\ log[1].action.delete_before = 0
   /\ log[2].action.delete_before = 0
   /\ log[1].state.carry_to_next

\* C29: CarryToNext is one-shot.  The part sets carry_to_next and nothing
\* else; SetCaps and SetSpace leave the flag as it is; a Verbatim that runs
\* with the flag set emits with the current caps and space, leaves both
\* unchanged and clears the flag; a Verbatim that runs with the flag clear
\* sets caps to false and space to true.  So of two Verbatims in a row, the
\* first with the flag set, the second begins with the caps and space of
\* the first and ends with caps false and space true.
C29_CarryIsOneShot ==
   /\ PartAlone("CarryToNext")
      => steno.state = [PartsStart.state EXCEPT !.carry_to_next = TRUE]
   /\ PartAlone("SetCaps")
      => steno.state
           = [PartsStart.state EXCEPT !.caps = EntryOf(Last(log).action)[1].b]
   /\ PartAlone("SetSpace")
      => steno.state
           = [PartsStart.state EXCEPT !.space = EntryOf(Last(log).action)[1].b]
   /\ VerbatimAlone
      => LET before == PartsStart.state
         IN /\ Last(steno.backlog.inner).text
                  = (IF before.space THEN <<" ">> ELSE <<>>)
                    \o Capsed(EntryOf(Last(log).action)[1].text, before.caps)
            /\ steno.state
                  = IF before.carry_to_next
                    THEN [before EXCEPT !.carry_to_next = FALSE, !.glue = FALSE]
                    ELSE [caps |-> FALSE, space |-> TRUE,
                          carry_to_next |-> FALSE, glue |-> FALSE]
   /\ TwoVerbatimsAfterCarry
      => /\ log[2].state.caps = log[1].state.caps
         /\ log[2].state.space = log[1].state.space
         /\ ~log[2].state.carry_to_next
         /\ ~steno.state.caps /\ steno.state.space
         /\ ~steno.state.carry_to_next

\* Two words in a row, the first with carry_to_next set in the initial caps
\* and space: both are in upper case and no space parts them, and the caps
\* and space are cleared after the second
C29_Witness ==
   /\ TwoVerbatimsAfterCarry
   /\ log[1].state.caps /\ ~log[1].state.space
   /\ Len(steno.backlog.inner) = 2
   /\ steno.backlog.inner[1].text = <<"H", "e">>
   /\ steno.backlog.inner[2].text = <<"H", "e">>
   /\ ~steno.state.caps /\ steno.state.space

\* C30: SpecialPunct(p), in any state, appends p with no leading space,
\* whatever space is; afterwards space is true, caps is true iff p is one
\* of . ! ? (false for , : ;), and carry_to_next is as it was.
C30_PunctSemantics ==
   PartAlone("SpecialPunct")
   => LET call == Last(log)
          before == PartsStart.state
          p == EntryOf(call.action)[1].text
      IN /\ p \in {<<".">>, <<",">>, <<":">>, <<";">>, <<"!">>, <<"?">>}
         /\ call.flushed
            \/ steno.output_in_progress
                  = OutputAppend(PartsStart.output_in_progress, p)
         /\ steno.backlog.inner # <<>>
         /\ Last(steno.backlog.inner).text = p
         /\ steno.state.space
         /\ steno.state.caps <=> p \in {<<".">>, <<"!">>, <<"?">>}
         /\ steno.state.carry_to_next = before.carry_to_next

\* A comma has been appended in a state with caps, space and carry_to_next
\* set: no space precedes it, caps is cleared and carry_to_next is still
\* set
C30_Witness ==
   /\ PartAlone("SpecialPunct")
   /\ PartsStart.state.caps /\ PartsStart.state.space
   /\ PartsStart.state.carry_to_next
   /\ ~Last(log).flushed
   /\ Last(steno.backlog.inner).text = <<",">>
   /\ steno.output_in_progress.append[Len(steno.output_in_progress.append)] = ","
   /\ steno.output_in_progress.append[Len(steno.output_in_progress.append) - 1] = "."
   /\ ~steno.state.caps /\ steno.state.space /\ steno.state.carry_to_next

\* The chord holds the number bar, a digit key and otherwise only keys that
\* the number path removes: E with U, D, Z, K, and B with G
MappedNumberChord(keys) ==
   /\ "#" \in keys
   /\ keys \cap {DigitKeyOrder[i] : i \in 1..Len(DigitKeyOrder)} # {}
   /\ keys \subseteq {"#", "E", "U", "D", "Z", "K", "B", "G"}
                     \cup {DigitKeyOrder[i] : i \in 1..Len(DigitKeyOrder)}
   /\ "E" \in keys <=> "U" \in keys
   /\ "B" \in keys <=> "G" \in keys

\* C31: for every number chord with at least one digit key, if K is
\* present, or B and G are both present (also when K, B and G are all
\* present), the number path succeeds and the text produced ends with ':00'.
C31_ClockEndsWithZeros ==
   (/\ log # <<>>
    /\ MappedNumberChord(Last(log).keys)
    /\ "K" \in Last(log).keys \/ {"B", "G"} \subseteq Last(log).keys)
   => /\ make_numbers(Last(log).keys) # <<>>
      /\ Len(Last(log).action.entry) = 1
      /\ EndsWith(Last(log).action.entry[1].text, <<":", "0", "0">>)

\* The chord holds the number bar and a key that the number path never
\* removes
UnmappedNumberChord(keys) ==
   /\ "#" \in keys
   /\ keys \ ({"#", "E", "U", "D", "Z", "K", "B", "G"}
               \cup {DigitKeyOrder[i] : i \in 1..Len(DigitKeyOrder)}) # {}

\* The action of the literal spelling of the chord
LiteralOf(keys) ==
   [entry |-> <<Verbatim(Format(keys))>>, strokes |-> <<keys>>,
    removed_suffix |-> <<>>, delete_before |-> 0]

\* C32 as stated: a chord of the number bar with a key the number path
\* cannot map is no error and gives the literal Verbatim spelling of the
\* chord with delete_before = 0, whatever the dictionary contains.
C32_UnmappedIsLiteralAlways ==
   (log # <<>> /\ UnmappedNumberChord(Last(log).keys))
   => /\ steno.res = "ok"
      /\ Last(log).action = LiteralOf(Last(log).keys)

\* C32: a chord of the number bar with a key the number path cannot map is
\* no error.  It falls through to the dictionary lookup: when no key of the
\* dictionary is the chord, alone or after the strokes of the last events,
\* with or without its suffix keys, the action is the literal Verbatim
\* spelling of the chord with delete_before = 0; otherwise the action is
\* that of the dictionary key and not the literal spelling.
C32_UnmappedFallsThrough ==
   (log # <<>> /\ UnmappedNumberChord(Last(log).keys))
   => /\ steno.res = "ok"
      /\ ~LookupFound(Last(log))
         => Last(log).action = LiteralOf(Last(log).keys)
      /\ LookupFound(Last(log))
         => /\ Last(log).action # LiteralOf(Last(log).keys)
            /\ \E key \in DOMAIN DictMap :
                  /\ Last(log).action.entry = DictMap[key]
                  /\ Len(key) = Len(Last(log).action.strokes)

\* The chord #SW, of a digit key and a key that is no number key, has been
\* spelled out after a word
C32_Witness ==
   /\ Len(log) = 2
   /\ Last(log).keys = cNSW
   /\ Last(log).backlog # <<>>
   /\ ~LookupFound(Last(log))
   /\ Last(log).action.entry = <<Verbatim(<<"#", "S", "W">>)>>
   /\ Last(log).pushed = 1
   /\ steno.res = "ok"

\* The text is one or more ASCII digits
AllDigits(text) ==
   \A i \in 1..Len(text) :
      text[i] \in {"0", "1", "2", "3", "4", "5", "6", "7", "8", "9"}

\* The call was given a chord for which the number path yields a text
NumberCall(call) == MappedNumberChord(call.keys) /\ ~{"K", "B", "G"} \subseteq call.keys

\* The action of a number chord, as the claim gives it
NumberAction(call) ==
   LET text == ExpectedNumber(call.keys)
                  \o (IF "K" \in call.keys \/ {"B", "G"} \subseteq call.keys
                      THEN <<":", "0", "0">> ELSE <<>>)
   IN [entry |-> IF AllDigits(text) THEN <<Glue(text)>> ELSE <<Verbatim(text)>>,
       strokes |-> <<call.keys>>,
       removed_suffix |-> <<>>,
       delete_before |-> 0]

\* The last part of the entry run by the call emitted its text as a Glue
EndedWithGlue(call) ==
   /\ EntryOf(call.action) # <<>>
   /\ Last(EntryOf(call.action)).t = "Glue"

\* The last part of the entry run by the call emitted text, and not as a
\* Glue
EndedWithOther(call) ==
   /\ EntryOf(call.action) # <<>>
   /\ Last(EntryOf(call.action)).t \in {"Verbatim", "Suffix", "SpecialPunct"}

\* C33 (the action): a number chord whose text is all digits gives a Glue
\* of the text and any other number text a Verbatim, with strokes [C] and
\* delete_before = 0, whatever keys the dictionary holds.
C33_NumberAction ==
   (log # <<>> /\ NumberCall(Last(log)))
   => Last(log).action = NumberAction(Last(log))

\* C33: a number chord whose text is all digits is emitted as Glue and any
\* other number text as Verbatim, with strokes [C] and delete_before = 0
\* without consulting the dictionary; so an all-digit number chord that
\* follows an all-digit number chord is emitted with no space before it,
\* and a number chord that follows an emission that is no Glue is emitted
\* after a space when space is set.
C33_NumbersGlue ==
   /\ C33_NumberAction
   /\ (/\ Len(log) = 2 /\ steno.res = "ok"
       /\ log[1].pushed = 1
       /\ NumberCall(log[1]) /\ EndedWithGlue(log[1])
       /\ NumberCall(log[2]) /\ EndedWithGlue(log[2]))
      => Last(steno.backlog.inner).text = log[2].action.entry[1].text
   /\ (/\ Len(log) = 2 /\ steno.res = "ok"
       /\ log[1].pushed = 1
       /\ EndedWithOther(log[1])
       /\ NumberCall(log[2]))
      => Last(steno.backlog.inner).text
            = (IF log[2].state.space THEN <<" ">> ELSE <<>>)
              \o log[2].action.entry[1].text

\* C35: Output.delete(amount) removes exactly amount from the end of the
\* text 'surface followed by append'.  Of the delete that the engine
\* performs on the text of its last backlog event: when amount.bytes <=
\* len(append) only the tail of append is truncated and delete is
\* unchanged; otherwise append becomes empty and delete grows by amount
\* minus the former content of append, in the character and in the byte
\* counter; and no counter of the accumulated Output has underflowed.
C35_DeleteConsumesAppendFirst ==
   /\ steno.output_in_progress.delete.chars >= 0
   /\ steno.output_in_progress.delete.bytes >= 0
   /\ (steno.res = "ok" /\ steno.backlog.inner # <<>>)
      => LET out == steno.output_in_progress
             amount == for_str(Last(steno.backlog.inner).text)
             after == OutputDelete(out, amount)
         IN /\ after.delete_words = out.delete_words
            /\ IF amount.bytes <= Len(out.append)
               THEN /\ after.delete = out.delete
                    /\ after.append
                          = SubSeq(out.append, 1, Len(out.append) - amount.bytes)
               ELSE /\ after.append = <<>>
                    /\ amount.chars >= CharCount(out.append)
                    /\ after.delete.chars
                          = out.delete.chars + (amount.chars - CharCount(out.append))
                    /\ after.delete.bytes
                          = out.delete.bytes + (amount.bytes - Len(out.append))

\* The rule's prev_tail is a suffix of first and its suffix_head a prefix of
\* second
RuleMatches(i, first, second) ==
   /\ Len(RULES[i][1]) <= Len(first)
   /\ SubSeq(first, Len(first) - Len(RULES[i][1]) + 1, Len(first)) = RULES[i][1]
   /\ Len(RULES[i][2]) <= Len(second)
   /\ SubSeq(second, 1, Len(RULES[i][2])) = RULES[i][2]

\* first without the rule's tail, the replacement, second without the head
RuleFuses(i, first, second) ==
   SubSeq(first, 1, Len(first) - Len(RULES[i][1]))
   \o RULES[i][3]
   \o SubSeq(second, Len(RULES[i][2]) + 1, Len(second))

\* C34: apply_orthography_rules(prev, suffix) returns, for the first rule
\* in table order whose prev_tail is a suffix of prev and whose suffix_head
\* is a prefix of suffix, prev without the tail + replacement + suffix
\* without the head, and None when no rule matches; the result depends only
\* on the two arguments: every call with them returns the same.
C34_FirstRuleInTableOrder ==
   \A k \in 1..Len(ortho.results) :
      LET result == ortho.results[k]
          matching == {i \in 1..Len(RULES) :
                         RuleMatches(i, ortho.first, ortho.second)}
      IN /\ result = <<>> <=> matching = {}
         /\ matching # {}
            => \E i \in matching :
                  /\ \A j \in matching : i <= j
                  /\ result = <<RuleFuses(i, ortho.first, ortho.second)>>
         /\ result = ortho.results[1]
         /\ result = apply_orthography_rules(ortho.first, ortho.second)

\* "tie" and "ing" have been fused twice, before and after the engine ran
\* a word, into "tying": the rule (ie, ing, ying) comes before (e, ing, ing)
C34_Witness ==
   /\ ortho.first = <<"t", "i", "e">>
   /\ ortho.second = <<"i", "n", "g">>
   /\ ortho.results = << <<<<"t", "y", "i", "n", "g">>>>,
                         <<<<"t", "y", "i", "n", "g">>>> >>
   /\ calls = 1
   /\ Cardinality({i \in 1..Len(RULES) :
                      RuleMatches(i, ortho.first, ortho.second)}) = 2

\* Every call so far was followed by a flush, no event was evicted, no
\* Backspace met an empty backlog and no other command ran
FlushedAfterEveryCall ==
   /\ steno.res = "ok"
   /\ calls > 0
   /\ seen.flushes = calls
   /\ seen.evicted = 0
   /\ seen.empty_pops = 0
   /\ ~seen.other_commands

\* C36: after every run_keys call followed by a flush applied to the
\* surface (no eviction, no Reset, no Backspace on an empty backlog), a
\* non-empty backlog means the surface ends with the text of the last
\* backlog event.
C36_SurfaceEndsWithLastEvent ==
   (FlushedAfterEveryCall /\ steno.backlog.inner # <<>>)
   => EndsWith(surface, Last(steno.backlog.inner).text)

\* The strokes of the last call's action end with the chord delivered
\* before it and the chord of the call
EndsWithLastTwoChords ==
   LET strokes == Last(log).action.strokes
   IN Len(strokes) >= 2
      => /\ strokes[Len(strokes)] = log[2].keys
         /\ strokes[Len(strokes) - 1] = log[1].keys

\* C37: in a chord sequence with no Backspace and no Reset command, the
\* strokes of every action returned by find_action are a contiguous run of
\* the most recently delivered chords ending with the current chord; here,
\* over the last two calls: an action of several strokes ends with the
\* chord delivered just before and the current chord.
C37_StrokesAreContiguous ==
   (Len(log) = 2 /\ seen.command_free) => EndsWithLastTwoChords

\* The number of strokes the events of a backlog hold
StrokesHeld(events) == Len(FlatStrokes(events))

\* C38: every run_keys call terminates: the recursion of Backspace
\* re-running the strokes of a popped event, which may resolve to Backspace
\* entries and consume further events, is finite. No call reaches the
\* depth at which the model cuts the recursion, and the strokes a call
\* re-runs are bounded by the strokes the backlog held before the call.
C38_UndoRecursionIsFinite ==
   log # <<>>
   => /\ steno.res # "nest"
      /\ steno.rerun <= (max_strokes - 1) * StrokesHeld(Last(log).backlog)

\* The undo chord met two events of the two-stroke key whose first stroke
\* is an entry that undoes: the re-run of the first stroke undid the other
\* event and re-ran its first stroke in turn
C38_Witness ==
   /\ log # <<>>
   /\ steno.res = "ok"
   /\ UndoChord(Last(log))
   /\ Len(Last(log).backlog) >= 2
   /\ \A k \in Len(Last(log).backlog) - 1..Len(Last(log).backlog) :
         Last(log).backlog[k].strokes = <<cU, cB>>
   /\ steno.rerun = 2


============================================================================
